---- MODULE Spec2Model ----
(***************************************************************************)
(* A model of the prop-bet analysis engine (src/analysis_engine.py): the   *)
(* odds arithmetic, the four confidence sub-analyses, the wager            *)
(* mathematics, the Monte Carlo step on numpy's process-wide generator,    *)
(* analyze_prop, batch_analyze_props and concurrent analyses.              *)
(*                                                                         *)
(* The module is the build in which `from WagerBrain import ...` fails     *)
(* (the package is not part of the repository), so the fallback functions  *)
(* of lines 43-120 are the ones in use, and scipy is not assumed.          *)
(*                                                                         *)
(* Python floats are modelled as exact rationals <<n, d>> in lowest terms  *)
(* with d > 0; round(x, k) is rounding to k decimals, ties to even.        *)
(***************************************************************************)
EXTENDS Integers, Sequences, FiniteSets, TLC

VARIABLES
    cfg,      \* the engine's AnalysisConfig (self.config)
    rng,      \* state of numpy's global generator (np.random), shared by the process
    clock,    \* the wall clock read by datetime.now()
    call,     \* the latest call of the caller: its arguments and what it got
    prev,     \* the earlier call(s) made with the same arguments
    io,       \* the arguments drawn for the odds functions and the recommendation
    batch,    \* the running batch_analyze_props call
    thr       \* the concurrently running analyze_prop calls

vars == <<cfg, rng, clock, call, prev, io, batch, thr>>

----------------------------------------------------------------------------
(* Exact rational arithmetic standing for Python's float arithmetic.       *)

\* Op(v) with v evaluated once: a local variable assigned once and read often
Let1(v, Op(_)) == CHOOSE r \in {Op(x) : x \in {v}} : TRUE

Abs(x) == IF x < 0 THEN -x ELSE x

RECURSIVE GCD(_, _)
GCD(a, b) == IF b = 0 THEN Abs(a) ELSE GCD(b, a % b)

Q(n, d) ==
    LET g == GCD(Abs(n), Abs(d))
        s == IF d < 0 THEN -1 ELSE 1
    IN  <<(s * n) \div g, (s * d) \div g>>

Z(n) == <<n, 1>>

RAdd(a, b) ==
    LET g == GCD(a[2], b[2])
    IN  Q(a[1] * (b[2] \div g) + b[1] * (a[2] \div g), (a[2] \div g) * b[2])

RNeg(a) == <<-a[1], a[2]>>

RSub(a, b) == RAdd(a, RNeg(b))

RMul(a, b) ==
    LET g1 == GCD(Abs(a[1]), b[2])
        g2 == GCD(Abs(b[1]), a[2])
    IN  Q((a[1] \div g1) * (b[1] \div g2), (a[2] \div g2) * (b[2] \div g1))

\* a / b for b # 0 (the callers test for the ZeroDivisionError case first)
RDiv(a, b) == RMul(a, Q(b[2], b[1]))

RLt(a, b) == RSub(a, b)[1] < 0

RLe(a, b) == RSub(a, b)[1] <= 0

RMax(a, b) == IF RLt(a, b) THEN b ELSE a

RMin(a, b) == IF RLt(b, a) THEN b ELSE a

RAbs(a) == <<Abs(a[1]), a[2]>>

\* max(lo, min(hi, x))
Clamp(lo, hi, x) == Let1(x, LAMBDA v : IF RLt(hi, v) THEN RMax(lo, hi) ELSE RMax(lo, v))

Pow10(k) == IF k = 0 THEN 1 ELSE IF k = 1 THEN 10 ELSE IF k = 2 THEN 100
            ELSE IF k = 3 THEN 1000 ELSE 10000

\* <<floor(r * 10^k / d), (r * 10^k) % d>> for 0 <= r < d, by long division
RECURSIVE LongDiv(_, _, _)
LongDiv(r, d, k) ==
    IF k = 0 THEN <<0, r>>
    ELSE Let1(LongDiv(r, d, k - 1), LAMBDA p :
              <<p[1] * 10 + ((p[2] * 10) \div d), (p[2] * 10) % d>>)

\* round(x, k)
RoundUp(low, twice, d) ==
    IF twice > d THEN 1 ELSE IF twice < d THEN 0 ELSE IF low % 2 = 0 THEN 0 ELSE 1

Round(x, k) ==
    Let1(LongDiv(x[1] % x[2], x[2], k), LAMBDA p :
    Let1((x[1] \div x[2]) * Pow10(k) + p[1], LAMBDA low :
         Q(low + RoundUp(low, 2 * p[2], x[2]), Pow10(k))))

\* floor(x)
Floor(x) == x[1] \div x[2]

----------------------------------------------------------------------------
(* Odds values.  An odds argument is any Python value: None, an int, or a  *)
(* str made of an optional sign and a body that is a numeral or not.       *)

OddsStr(sign, mag) == [ty |-> "str", sign |-> sign, num |-> TRUE, mag |-> mag]

OddsText(sign) == [ty |-> "str", sign |-> sign, num |-> FALSE, mag |-> 0]

OddsInt(sign, mag) == [ty |-> "int", sign |-> sign, num |-> TRUE, mag |-> mag]

OddsNone == [ty |-> "none", sign |-> "", num |-> FALSE, mag |-> 0]

DefaultOdds == OddsStr("-", 110)

\* isinstance(odds, str) and (odds.startswith('+') or odds.startswith('-'))
IsSignedStr(odds) == odds.ty = "str" /\ odds.sign \in {"+", "-"}

\* int(text): [ok |-> FALSE] stands for the ValueError
IntOf(odds) ==
    IF odds.num
    THEN [ok |-> TRUE, val |-> IF odds.sign = "-" THEN -odds.mag ELSE odds.mag]
    ELSE [ok |-> FALSE, val |-> 0]

\* mutation of implied_probability: the positive-odds formula 100 / (v + 100)
\* used for negative odds too
implied_probability_one_formula(odds) ==
    IF IsSignedStr(odds) /\ ~IntOf(odds).ok THEN Q(5263, 10000)
    ELSE Let1(IF IsSignedStr(odds) THEN IntOf(odds).val ELSE -110, LAMBDA odds_value :
              Q(100, Abs(odds_value) + 100))

implied_probability(odds) ==
    IF IsSignedStr(odds) /\ ~IntOf(odds).ok THEN Q(5263, 10000)
    ELSE LET odds_value == IF IsSignedStr(odds) THEN IntOf(odds).val ELSE -110
         IN  IF odds_value > 0 THEN Q(100, odds_value + 100)
             ELSE Q(Abs(odds_value), Abs(odds_value) + 100)

\* decimal odds of kelly_criterion / fallback_kelly_criterion:
\* [ok |-> FALSE] stands for the exception (ValueError, ZeroDivisionError)
DecimalOdds(odds) ==
    IF IsSignedStr(odds) /\ ~IntOf(odds).ok THEN [ok |-> FALSE, d |-> Z(0)]
    ELSE LET odds_value == IF IsSignedStr(odds) THEN IntOf(odds).val ELSE -110
         IN  IF odds_value > 0
             THEN [ok |-> TRUE, d |-> RAdd(Q(odds_value, 100), Z(1))]
             ELSE IF odds_value = 0 THEN [ok |-> FALSE, d |-> Z(0)]
             ELSE [ok |-> TRUE, d |-> RAdd(Q(100, Abs(odds_value)), Z(1))]

\* (prob * decimal_odds - 1) / (decimal_odds - 1)
KellyValue(prob, d) == RDiv(RSub(RMul(prob, d), Z(1)), RSub(d, Z(1)))

\* mutation of KellyClamp: min(cap, kelly) without the max(0, ...)
KellyCapOnly(cap, prob, odds) ==
    Let1(DecimalOdds(odds), LAMBDA dec :
         IF ~dec.ok THEN Z(0) ELSE RMin(cap, KellyValue(prob, dec.d)))

\* max(0, min(cap, kelly)), and 0.0 from the except branch
KellyClamp(cap, prob, odds) ==
    Let1(DecimalOdds(odds), LAMBDA dec :
         IF ~dec.ok THEN Z(0)
         ELSE RMax(Z(0), RMin(cap, KellyValue(prob, dec.d))))

kelly_criterion(prob, odds) == KellyClamp(Q(25, 100), prob, odds)

true_odds_ev(stake, profit, prob) ==
    RSub(RMul(prob, profit), RMul(RSub(Z(1), prob), stake))

----------------------------------------------------------------------------
(* Arguments.  A Python dict is a record with the set `has` of the keys    *)
(* present; kind "none" is an argument that is not a mapping (None).       *)

Prop(has, id, player, ptype, line, sport, odds) ==
    [kind |-> "dict", has |-> has, id |-> id, player_name |-> player,
     prop_type |-> ptype, line_value |-> line, sport |-> sport, odds |-> odds]

NotAMapping ==
    [kind |-> "none", has |-> {}, id |-> "None", player_name |-> "None",
     prop_type |-> "None", line_value |-> Z(0), sport |-> "None", odds |-> OddsNone]

\* recent_averages maps each statistic t of its domain to avg_<t>
NoAverages == [t \in {} |-> Z(0)]

Stats(avgs) == [kind |-> "dict", recent_averages |-> avgs]

NoStats == [kind |-> "none", recent_averages |-> NoAverages]

\* opponent data: None, or a dict with or without 'era'
Opponent(has, era) == [kind |-> "dict", has |-> has, era |-> era]

NoOpponent == [kind |-> "none", has |-> {}, era |-> Z(0)]

\* prop_data[key] succeeds
HasKey(d, key) == d.kind = "dict" /\ key \in d.has

\* not player_stats.get('recent_averages')
NoRecentAverages(player_stats) == DOMAIN player_stats.recent_averages = {}

----------------------------------------------------------------------------
(* AnalysisConfig and its defaults.                                        *)

DefaultWeights ==
    [recent_form |-> Q(40, 100), opponent_strength |-> Q(25, 100),
     home_away |-> Q(15, 100), weather |-> Q(10, 100),
     rest_days |-> Q(5, 100), historical |-> Q(5, 100)]

AnalysisConfig(high, medium, low, cap, sims) ==
    [high |-> high, medium |-> medium, low |-> low,
     factor_weights |-> DefaultWeights,
     kelly_max_fraction |-> cap,
     min_edge_threshold |-> Q(1, 100),
     monte_carlo_simulations |-> sims,
     risk_free_rate |-> Q(2, 100)]

----------------------------------------------------------------------------
(* The four confidence sub-analyses.  Each catches every exception of its  *)
(* body and then returns the neutral score 0.5 with the error noted.       *)

SubError == [score |-> Q(1, 2), trend |-> "error"]

\* mutation of HitRate: the values of two neighbouring buckets exchanged
HitRateSwapped(ratio) ==
    IF RLe(Q(120, 100), ratio) THEN Q(80, 100)
    ELSE IF RLe(Q(115, 100), ratio) THEN Q(75, 100)
    ELSE IF RLe(Q(110, 100), ratio) THEN Q(70, 100)
    ELSE IF RLe(Q(105, 100), ratio) THEN Q(65, 100)
    ELSE IF RLe(Q(102, 100), ratio) THEN Q(52, 100)
    ELSE IF RLe(Q(98, 100), ratio) THEN Q(58, 100)
    ELSE IF RLe(Q(95, 100), ratio) THEN Q(45, 100)
    ELSE IF RLe(Q(90, 100), ratio) THEN Q(38, 100)
    ELSE IF RLe(Q(85, 100), ratio) THEN Q(30, 100)
    ELSE Q(25, 100)

\* mutation of HitRate: the top bucket entered at ratio > 1.20, not >= 1.20
HitRateAboveOnly(ratio) ==
    IF RLt(Q(120, 100), ratio) THEN Q(80, 100)
    ELSE IF RLe(Q(115, 100), ratio) THEN Q(75, 100)
    ELSE IF RLe(Q(110, 100), ratio) THEN Q(70, 100)
    ELSE IF RLe(Q(105, 100), ratio) THEN Q(65, 100)
    ELSE IF RLe(Q(102, 100), ratio) THEN Q(58, 100)
    ELSE IF RLe(Q(98, 100), ratio) THEN Q(52, 100)
    ELSE IF RLe(Q(95, 100), ratio) THEN Q(45, 100)
    ELSE IF RLe(Q(90, 100), ratio) THEN Q(38, 100)
    ELSE IF RLe(Q(85, 100), ratio) THEN Q(30, 100)
    ELSE Q(25, 100)

HitRate(ratio) ==
    IF RLe(Q(120, 100), ratio) THEN Q(80, 100)
    ELSE IF RLe(Q(115, 100), ratio) THEN Q(75, 100)
    ELSE IF RLe(Q(110, 100), ratio) THEN Q(70, 100)
    ELSE IF RLe(Q(105, 100), ratio) THEN Q(65, 100)
    ELSE IF RLe(Q(102, 100), ratio) THEN Q(58, 100)
    ELSE IF RLe(Q(98, 100), ratio) THEN Q(52, 100)
    ELSE IF RLe(Q(95, 100), ratio) THEN Q(45, 100)
    ELSE IF RLe(Q(90, 100), ratio) THEN Q(38, 100)
    ELSE IF RLe(Q(85, 100), ratio) THEN Q(30, 100)
    ELSE Q(25, 100)

Trend(ratio) ==
    IF RLe(Q(115, 100), ratio) THEN "strongly_positive"
    ELSE IF RLe(Q(105, 100), ratio) THEN "positive"
    ELSE IF RLe(Q(95, 100), ratio) THEN "stable"
    ELSE IF RLe(Q(85, 100), ratio) THEN "negative"
    ELSE "strongly_negative"

\* recent_avg / line_value if line_value > 0 else 0
RatioToLine(avg, line) == IF RLt(Z(0), line) THEN RDiv(avg, line) ELSE Z(0)

analyze_recent_performance(player_stats, prop_data) ==
    IF player_stats.kind # "dict" THEN SubError
    ELSE IF NoRecentAverages(player_stats)
    THEN [score |-> Q(1, 2), trend |-> "insufficient_data"]
    ELSE IF ~HasKey(prop_data, "prop_type") \/ ~HasKey(prop_data, "line_value")
    THEN SubError
    ELSE IF prop_data.prop_type \notin DOMAIN player_stats.recent_averages
    THEN [score |-> Q(1, 2), trend |-> "no_matching_stat"]
    ELSE Let1(player_stats.recent_averages[prop_data.prop_type], LAMBDA recent_avg :
         Let1(RatioToLine(recent_avg, prop_data.line_value), LAMBDA ratio :
         Let1(HitRate(ratio), LAMBDA hit_rate :
              [score |-> hit_rate, trend |-> Trend(ratio),
               hit_rate |-> hit_rate, recent_average |-> recent_avg,
               line_value |-> prop_data.line_value, avg_vs_line_ratio |-> ratio])))

analyze_historical_trends(player_stats, prop_data) ==
    IF player_stats.kind # "dict" THEN SubError
    ELSE IF NoRecentAverages(player_stats)
    THEN [score |-> Q(1, 2), trend |-> "insufficient_data"]
    ELSE IF ~HasKey(prop_data, "prop_type") \/ ~HasKey(prop_data, "line_value")
    THEN SubError
    ELSE Let1(prop_data.prop_type \in DOMAIN player_stats.recent_averages, LAMBDA present :
         Let1(IF present
              THEN Clamp(Q(2, 10), Q(8, 10),
                         RMul(RatioToLine(player_stats.recent_averages[prop_data.prop_type],
                                          prop_data.line_value), Q(1, 2)))
              ELSE Q(1, 2), LAMBDA historical_score :
              [score |-> RAdd(RMul(historical_score, Q(7, 10)),
                              RMul(Q(7, 10), Q(3, 10))),
               present |-> present,
               line_value |-> prop_data.line_value,
               consistency |-> Q(7, 10)]))

\* mutation of MatchupBase: hits scored 0.75
MatchupBaseHighHits(prop_type) ==
    CASE prop_type = "hits" -> Q(75, 100)
      [] prop_type = "runs" -> Q(52, 100)
      [] prop_type = "rbis" -> Q(50, 100)
      [] prop_type = "strikeouts" -> Q(48, 100)
      [] prop_type = "home_runs" -> Q(45, 100)
      [] OTHER -> Q(50, 100)

\* matchup_scores.get(prop_type, 0.50)
MatchupBase(prop_type) ==
    CASE prop_type = "hits" -> Q(55, 100)
      [] prop_type = "runs" -> Q(52, 100)
      [] prop_type = "rbis" -> Q(50, 100)
      [] prop_type = "strikeouts" -> Q(48, 100)
      [] prop_type = "home_runs" -> Q(45, 100)
      [] OTHER -> Q(50, 100)

analyze_mlb_pitching_matchup(pitching_data, prop_data) ==
    IF ~HasKey(prop_data, "prop_type") THEN [score |-> Q(1, 2), note |-> "error"]
    ELSE Let1(IF "era" \in pitching_data.has /\ RLt(Q(45, 10), pitching_data.era)
              THEN "favorable"
              ELSE IF "era" \in pitching_data.has /\ RLt(pitching_data.era, Q(35, 10))
              THEN "difficult" ELSE "moderate", LAMBDA difficulty :
         Let1(IF difficulty = "favorable"
              THEN RAdd(MatchupBase(prop_data.prop_type), Q(1, 10))
              ELSE IF difficulty = "difficult"
              THEN RSub(MatchupBase(prop_data.prop_type), Q(1, 10))
              ELSE MatchupBase(prop_data.prop_type), LAMBDA opponent_score :
              [score |-> Clamp(Q(2, 10), Q(8, 10), opponent_score),
               note |-> "MLB matchup analysis",
               difficulty |-> difficulty]))

\* `not opponent_data` holds of None and of the empty dict
analyze_opponent_matchup(opponent_data, prop_data) ==
    IF opponent_data.kind # "dict" \/ opponent_data.has = {}
    THEN [score |-> Q(1, 2), note |-> "no_opponent_data"]
    ELSE IF ~HasKey(prop_data, "sport") THEN [score |-> Q(1, 2), note |-> "error"]
    ELSE IF prop_data.sport = "MLB"
    THEN analyze_mlb_pitching_matchup(opponent_data, prop_data)
    ELSE [score |-> Q(1, 2), note |-> "analysis_placeholder"]

\* mutation of analyze_situational_factors: weather weighted 0.2 and form 0.25
analyze_situational_weather_fifth(prop_data, player_stats) ==
    IF ~HasKey(prop_data, "sport") THEN [score |-> Q(1, 2), note |-> "error"]
    ELSE Let1(IF prop_data.sport \in {"MLB", "NFL", "GOLF"}
              THEN Q(55, 100) ELSE Q(1, 2), LAMBDA weather_score :
         Let1(RAdd(RAdd(RMul(Q(1, 2), Q(30, 100)), RMul(weather_score, Q(20, 100))),
                   RAdd(RMul(Q(1, 2), Q(25, 100)), RMul(Q(1, 2), Q(25, 100)))),
              LAMBDA situational_score :
              [score |-> Clamp(Q(2, 10), Q(8, 10), situational_score),
               home_away |-> Q(1, 2), weather |-> weather_score,
               rest |-> Q(1, 2), form |-> Q(1, 2)]))

analyze_situational_factors(prop_data, player_stats) ==
    IF ~HasKey(prop_data, "sport") THEN [score |-> Q(1, 2), note |-> "error"]
    ELSE Let1(IF prop_data.sport \in {"MLB", "NFL", "GOLF"}
              THEN Q(55, 100) ELSE Q(1, 2), LAMBDA weather_score :
         Let1(RAdd(RAdd(RMul(Q(1, 2), Q(30, 100)), RMul(weather_score, Q(25, 100))),
                   RAdd(RMul(Q(1, 2), Q(25, 100)), RMul(Q(1, 2), Q(20, 100)))),
              LAMBDA situational_score :
              [score |-> Clamp(Q(2, 10), Q(8, 10), situational_score),
               home_away |-> Q(1, 2), weather |-> weather_score,
               rest |-> Q(1, 2), form |-> Q(1, 2)]))

\* analysis.get('score', 0.5)
ScoreOf(analysis) == IF "score" \in DOMAIN analysis THEN analysis.score ELSE Q(1, 2)

\* mutation of calculate_confidence_score: the weighted score returned as it is
calculate_confidence_unclamped(factors, recent, historical, opponent, situational) ==
    RAdd(RAdd(RMul(ScoreOf(recent), factors.recent_form),
              RMul(ScoreOf(historical), factors.historical)),
         RAdd(RMul(ScoreOf(opponent), factors.opponent_strength),
              RMul(ScoreOf(situational),
                   RAdd(RAdd(factors.home_away, factors.weather),
                        factors.rest_days))))

calculate_confidence_score(factors, recent, historical, opponent, situational) ==
    Clamp(Z(0), Z(1),
          RAdd(RAdd(RMul(ScoreOf(recent), factors.recent_form),
                    RMul(ScoreOf(historical), factors.historical)),
               RAdd(RMul(ScoreOf(opponent), factors.opponent_strength),
                    RMul(ScoreOf(situational),
                         RAdd(RAdd(factors.home_away, factors.weather),
                              factors.rest_days)))))

----------------------------------------------------------------------------
(* The statistical model (approximate mode: no scipy).                     *)

\* mutation of ProbOverApprox: the interpolation above 0 taken below 0 too
ProbOverApproxOneSlope(z_score) ==
    IF RLt(Z(2), z_score) THEN Q(25, 1000)
    ELSE IF RLt(Z(1), z_score) THEN Q(16, 100)
    ELSE IF RLt(Z(-1), z_score) THEN RSub(Q(1, 2), RMul(RAbs(z_score), Q(34, 100)))
    ELSE IF RLt(Z(-2), z_score) THEN Q(84, 100)
    ELSE Q(975, 1000)

\* the step approximation of 1 - norm.cdf, keyed on the z-score
ProbOverApprox(z_score) ==
    IF RLt(Z(2), z_score) THEN Q(25, 1000)
    ELSE IF RLt(Z(1), z_score) THEN Q(16, 100)
    ELSE IF RLt(Z(0), z_score) THEN RSub(Q(1, 2), RMul(z_score, Q(34, 100)))
    ELSE IF RLt(Z(-1), z_score) THEN RAdd(Q(1, 2), RMul(RAbs(z_score), Q(34, 100)))
    ELSE IF RLt(Z(-2), z_score) THEN Q(84, 100)
    ELSE Q(975, 1000)

\* recent_averages.get(avg_key, line_value)
AverageOrLine(player_stats, prop_data) ==
    IF prop_data.prop_type \in DOMAIN player_stats.recent_averages
    THEN player_stats.recent_averages[prop_data.prop_type]
    ELSE prop_data.line_value

\* abs(recent_avg - line_value) / line_value if line_value > 0 else 0.1,
\* then max(0.05, min(0.5, volatility))
Volatility(recent_avg, line_value) ==
    Clamp(Q(5, 100), Q(5, 10),
          IF RLt(Z(0), line_value)
          THEN RDiv(RAbs(RSub(recent_avg, line_value)), line_value)
          ELSE Q(1, 10))

\* (line_value - recent_avg) / std_dev if std_dev > 0 else 0
ZScore(line_value, recent_avg, std_dev) ==
    IF RLt(Z(0), std_dev) THEN RDiv(RSub(line_value, recent_avg), std_dev) ELSE Z(0)

wagerbrain_statistical_analysis(player_stats, prop_data) ==
    IF player_stats.kind # "dict"
    THEN [volatility |-> Q(1, 10), note |-> "error"]
    ELSE IF NoRecentAverages(player_stats)
    THEN [volatility |-> Q(1, 10), confidence_interval |-> <<Z(0), Z(0)>>,
          note |-> "insufficient_data"]
    ELSE IF ~HasKey(prop_data, "prop_type") \/ ~HasKey(prop_data, "line_value")
    THEN [volatility |-> Q(1, 10), note |-> "error"]
    ELSE Let1(AverageOrLine(player_stats, prop_data), LAMBDA recent_avg :
         Let1(Volatility(recent_avg, prop_data.line_value), LAMBDA volatility :
         Let1(RMul(recent_avg, volatility), LAMBDA std_dev :
         Let1(ZScore(prop_data.line_value, recent_avg, std_dev), LAMBDA z_score :
         Let1(ProbOverApprox(z_score), LAMBDA prob_over :
              [volatility |-> Round(volatility, 3),
               confidence_interval |->
                   <<Round(RMax(Z(0), RSub(recent_avg, RMul(Q(196, 100), std_dev))), 2),
                     Round(RAdd(recent_avg, RMul(Q(196, 100), std_dev)), 2)>>,
               z_score |-> Round(z_score, 3),
               probability_over |-> Round(prob_over, 4),
               probability_under |-> Round(RSub(Z(1), prob_over), 4),
               standard_deviation |-> Round(std_dev, 3),
               recent_average |-> Round(recent_avg, 2)])))))

calculate_sharpe_ratio(risk_free_rate, expected_return, volatility) ==
    IF volatility = Z(0) THEN Z(0)
    ELSE RDiv(RSub(expected_return, risk_free_rate), volatility)

----------------------------------------------------------------------------
(* numpy's global generator.  np.random.seed and np.random.normal act on   *)
(* one generator per process; it is modelled as a deterministic generator  *)
(* with RngMod states, each draw stepping the state and yielding a         *)
(* standard-normal deviate that is a function of the new state.            *)

RngMod == 8

Seed == 42

\* np.random.seed(seed)
SeedState(seed) == seed % RngMod

NextState(s) == (5 * s + 3) % RngMod

StdNormal(s) == Q(2 * s - (RngMod - 1), 4)

RECURSIVE DrawStates(_, _)
DrawStates(s, n) ==
    IF n = 0 THEN <<>> ELSE <<NextState(s)>> \o DrawStates(NextState(s), n - 1)

RECURSIVE Advance(_, _)
Advance(s, n) == IF n = 0 THEN s ELSE Advance(NextState(s), n - 1)

\* np.random.normal(loc, scale, size) drawn with the generator in state s
Normal(s, loc, scale, size) ==
    Let1(DrawStates(s, size), LAMBDA states :
         [i \in 1..size |-> RAdd(loc, RMul(scale, StdNormal(states[i])))])

RECURSIVE Insert(_, _)
Insert(x, sorted) ==
    IF sorted = <<>> THEN <<x>>
    ELSE IF RLe(x, Head(sorted)) THEN <<x>> \o sorted
    ELSE <<Head(sorted)>> \o Insert(x, Tail(sorted))

RECURSIVE Sorted(_)
Sorted(xs) == IF xs = <<>> THEN <<>> ELSE Insert(Head(xs), Sorted(Tail(xs)))

RECURSIVE Sum(_)
Sum(xs) == IF xs = <<>> THEN Z(0) ELSE RAdd(Head(xs), Sum(Tail(xs)))

\* np.percentile(values, q): linear interpolation between order statistics
Percentile(values, q) ==
    Let1(Sorted(values), LAMBDA sorted :
    Let1(Q(q * (Len(sorted) - 1), 100), LAMBDA pos :
    Let1(Floor(pos), LAMBDA lo :
         IF lo + 1 >= Len(sorted) THEN sorted[Len(sorted)]
         ELSE RAdd(sorted[lo + 1],
                   RMul(RSub(pos, Z(lo)), RSub(sorted[lo + 2], sorted[lo + 1]))))))

\* the least k in lo..hi with (2k+1)^2 > v
RECURSIVE LeastOddSquareAbove(_, _, _)
LeastOddSquareAbove(lo, hi, v) ==
    IF lo >= hi THEN lo
    ELSE Let1((lo + hi) \div 2, LAMBDA mid :
              IF (2 * mid + 1) * (2 * mid + 1) > v
              THEN LeastOddSquareAbove(lo, mid, v)
              ELSE LeastOddSquareAbove(mid + 1, hi, v))

\* round(sqrt(x), 3) for x >= 0
SqrtRound3(x) ==
    Let1(Floor(RMul(x, Z(4000000))), LAMBDA v :
         Q(LeastOddSquareAbove(0, 20000, v), 1000))

\* np.std(values)
StdRound3(values) ==
    Let1(RDiv(Sum(values), Z(Len(values))), LAMBDA mean :
    Let1([i \in 1..Len(values) |->
              Let1(RSub(values[i], mean), LAMBDA dev : RMul(dev, dev))],
         LAMBDA squares : SqrtRound3(RDiv(Sum(squares), Z(Len(values))))))

----------------------------------------------------------------------------
(* The Monte Carlo step.                                                   *)

\* the step gets as far as np.random.seed(42)
MonteCarloSeeds(prop_data, player_stats) ==
    /\ player_stats.kind = "dict"
    /\ ~NoRecentAverages(player_stats)
    /\ HasKey(prop_data, "prop_type")
    /\ HasKey(prop_data, "line_value")

\* np.random.normal raises ValueError for a negative scale
MonteCarloSamples(prop_data, player_stats) ==
    /\ MonteCarloSeeds(prop_data, player_stats)
    /\ RLe(Z(0), AverageOrLine(player_stats, prop_data))

\* the result of the step when np.random.normal runs with the generator in
\* state s (lines 374-396)
MonteCarloFrom(s, simulations, prop_data, player_stats) ==
    IF player_stats.kind # "dict" THEN [hit_rate_over |-> Q(1, 2), note |-> "error"]
    ELSE IF NoRecentAverages(player_stats)
    THEN [hit_rate_over |-> Q(1, 2), simulations |-> 0, note |-> "insufficient_data"]
    ELSE IF ~MonteCarloSamples(prop_data, player_stats)
    THEN [hit_rate_over |-> Q(1, 2), note |-> "error"]
    ELSE Let1(AverageOrLine(player_stats, prop_data), LAMBDA recent_avg :
         Let1(Normal(s, recent_avg, RMul(recent_avg, Q(2, 10)), simulations),
              LAMBDA simulated_values :
         Let1(Q(Cardinality({i \in 1..simulations :
                                RLt(prop_data.line_value, simulated_values[i])}),
                simulations), LAMBDA hit_rate_over :
              [hit_rate_over |-> Round(hit_rate_over, 4),
               hit_rate_under |-> Round(RSub(Z(1), hit_rate_over), 4),
               simulations |-> simulations,
               percentiles |->
                   [q \in {5, 25, 50, 75, 95} |->
                        Round(Percentile(simulated_values, q), 2)],
               expected_outcome |-> Round(recent_avg, 2),
               simulation_std |-> StdRound3(simulated_values)])))

\* mutation of run_monte_carlo_simulation: the np.random.seed(42) line dropped
run_monte_carlo_unseeded(gen, simulations, prop_data, player_stats) ==
    [result |-> MonteCarloFrom(gen, simulations, prop_data, player_stats),
     gen |-> IF MonteCarloSamples(prop_data, player_stats)
             THEN Advance(gen, simulations) ELSE gen]

\* run_monte_carlo_simulation called with the generator in state gen, run
\* without interruption: its result and the generator's state afterwards
run_monte_carlo_simulation(gen, simulations, prop_data, player_stats) ==
    [result |-> MonteCarloFrom(SeedState(Seed), simulations, prop_data, player_stats),
     gen |-> IF MonteCarloSamples(prop_data, player_stats)
             THEN Advance(SeedState(Seed), simulations)
             ELSE IF MonteCarloSeeds(prop_data, player_stats)
             THEN SeedState(Seed) ELSE gen]

----------------------------------------------------------------------------
(* The wager mathematics.                                                  *)

\* int(str(odds).replace('+', '')): [ok |-> FALSE] stands for the ValueError
ProfitInt(odds) ==
    IF odds.ty = "none" THEN [ok |-> FALSE, val |-> 0] ELSE IntOf(odds)

\* the profit for a 1 stake (lines 255-262); zero_division stands for the
\* ZeroDivisionError of 100 / abs(0), which the inner except does not catch
ProfitPerUnit(odds) ==
    LET parsed == ProfitInt(odds)
    IN  IF ~parsed.ok THEN [zero_division |-> FALSE, profit |-> Q(100, 110)]
        ELSE IF parsed.val > 0
        THEN [zero_division |-> FALSE, profit |-> Q(parsed.val, 100)]
        ELSE IF parsed.val = 0 THEN [zero_division |-> TRUE, profit |-> Z(0)]
        ELSE [zero_division |-> FALSE, profit |-> Q(100, Abs(parsed.val))]

\* mutation of OddsOf: the default '+100' in place of '-110'
OddsOfEvenDefault(prop_data) ==
    IF HasKey(prop_data, "odds") THEN prop_data.odds ELSE OddsStr("+", 100)

\* prop_data.get('odds', '-110')
OddsOf(prop_data) == IF HasKey(prop_data, "odds") THEN prop_data.odds ELSE DefaultOdds

fallback_implied_probability(odds) == implied_probability(odds)

fallback_expected_value(true_prob, odds) ==
    RSub(true_prob, fallback_implied_probability(odds))

fallback_kelly_criterion(config, true_prob, odds) ==
    KellyClamp(config.kelly_max_fraction, true_prob, odds)

fallback_mathematical_analysis(config, prop_data, confidence_score) ==
    Let1(OddsOf(prop_data), LAMBDA odds :
    Let1(fallback_implied_probability(odds), LAMBDA implied_prob :
        [expected_value |-> Round(fallback_expected_value(confidence_score, odds), 4),
         kelly_criterion |-> Round(fallback_kelly_criterion(config, confidence_score, odds), 4),
         implied_probability |-> Round(implied_prob, 4),
         true_probability |-> Round(confidence_score, 4),
         edge |-> Round(RSub(confidence_score, implied_prob), 4),
         sharpe_ratio |-> Z(0),
         statistical_analysis |-> [volatility |-> Q(1, 10)],
         monte_carlo |-> [hit_rate_over |-> confidence_score],
         wagerbrain_engine |-> "fallback"]))

\* the try block of wagerbrain_mathematical_analysis runs through to line 277,
\* where it calls run_monte_carlo_simulation
MathReachesMonteCarlo(prop_data) ==
    /\ HasKey(prop_data, "line_value")
    /\ ~ProfitPerUnit(OddsOf(prop_data)).zero_division

\* wagerbrain_mathematical_analysis for a mapping prop_data; monte_carlo_results
\* is what its call of run_monte_carlo_simulation (line 277) returns
wagerbrain_mathematical_analysis(config, prop_data, confidence_score, player_stats, monte_carlo_results) ==
    IF ~MathReachesMonteCarlo(prop_data)
    THEN fallback_mathematical_analysis(config, prop_data, confidence_score)
    ELSE Let1(OddsOf(prop_data), LAMBDA odds :
         Let1(implied_probability(odds), LAMBDA implied_prob :
         Let1(true_odds_ev(Z(1), ProfitPerUnit(odds).profit, confidence_score),
              LAMBDA expected_value :
         Let1(wagerbrain_statistical_analysis(player_stats, prop_data),
              LAMBDA statistical_analysis :
              [expected_value |-> Round(expected_value, 4),
               kelly_criterion |-> Round(kelly_criterion(confidence_score, odds), 4),
               implied_probability |-> Round(implied_prob, 4),
               true_probability |-> Round(confidence_score, 4),
               edge |-> Round(RSub(confidence_score, implied_prob), 4),
               sharpe_ratio |->
                   Round(calculate_sharpe_ratio(config.risk_free_rate, expected_value,
                                                statistical_analysis.volatility), 3),
               statistical_analysis |-> statistical_analysis,
               monte_carlo |-> monte_carlo_results,
               wagerbrain_engine |-> "fallback"]))))

\* wagerbrain_analysis.get(key, 0)
GetOrZero(d, key) == IF key \in DOMAIN d THEN d[key] ELSE Z(0)

Categories == {"STRONG_BET", "MODERATE_BET", "WEAK_BET", "AVOID", "STRONG_AVOID"}

\* mutation of FirstBranch: the Kelly condition joined by `or`
FirstBranchAnyKelly(expected_value, edge, kelly_size) ==
    \/ RLt(Q(5, 100), expected_value) /\ RLt(Q(3, 100), edge)
    \/ RLt(Q(1, 100), kelly_size)

\* the first branch of the recommendation: all three of its conditions
FirstBranch(expected_value, edge, kelly_size) ==
    /\ RLt(Q(5, 100), expected_value)
    /\ RLt(Q(3, 100), edge)
    /\ RLt(Q(1, 100), kelly_size)

generate_wagerbrain_recommendation(config, confidence_score, wagerbrain_analysis) ==
    Let1(GetOrZero(wagerbrain_analysis, "expected_value"), LAMBDA expected_value :
    Let1(GetOrZero(wagerbrain_analysis, "kelly_criterion"), LAMBDA kelly_size :
    Let1(GetOrZero(wagerbrain_analysis, "edge"), LAMBDA edge :
        IF FirstBranch(expected_value, edge, kelly_size)
        THEN IF RLe(config.high, confidence_score) THEN "STRONG_BET"
             ELSE IF RLe(config.medium, confidence_score) THEN "MODERATE_BET"
             ELSE "WEAK_BET"
        ELSE IF RLt(Q(2, 100), expected_value) /\ RLt(config.min_edge_threshold, edge)
        THEN "WEAK_BET"
        ELSE IF RLt(expected_value, Q(-3, 100)) \/ RLt(edge, Q(-5, 100))
        THEN "STRONG_AVOID"
        ELSE "AVOID")))

----------------------------------------------------------------------------
(* analyze_prop.  An outcome is what the caller gets: a result dict, or an *)
(* exception raised to it.                                                 *)

Returned(result) == [raised |-> FALSE, result |-> result]

Raised(exception) == [raised |-> TRUE, result |-> [exception |-> exception]]

\* prop_data.get(key, default)
GetOr(prop_data, key, default) ==
    IF key \in prop_data.has THEN prop_data[key] ELSE default

\* mutation of create_error_analysis: the 'error' entry left out of the dict
create_error_without_text(prop_data, error_msg, now) ==
    IF prop_data.kind # "dict" THEN Raised("AttributeError")
    ELSE Returned(
         [prop_id |-> GetOr(prop_data, "id", "None"),
          player_name |-> GetOr(prop_data, "player_name", "Unknown"),
          prop_type |-> GetOr(prop_data, "prop_type", "Unknown"),
          line_value |-> GetOr(prop_data, "line_value", Z(0)),
          sport |-> GetOr(prop_data, "sport", "Unknown"),
          confidence_score |-> Z(0),
          recommendation |-> "ERROR",
          analysis_components |-> [recent_performance |-> [score |-> Z(0)]],
          wagerbrain_analysis |-> [wagerbrain_engine |-> "error"],
          analyzed_at |-> now])

\* prop_data.get('id') of a non-mapping raises AttributeError
create_error_analysis(prop_data, error_msg, now) ==
    IF prop_data.kind # "dict" THEN Raised("AttributeError")
    ELSE LET failed == [score |-> Z(0), error |-> error_msg]
         IN  Returned(
             [prop_id |-> GetOr(prop_data, "id", "None"),
              player_name |-> GetOr(prop_data, "player_name", "Unknown"),
              prop_type |-> GetOr(prop_data, "prop_type", "Unknown"),
              line_value |-> GetOr(prop_data, "line_value", Z(0)),
              sport |-> GetOr(prop_data, "sport", "Unknown"),
              confidence_score |-> Z(0),
              recommendation |-> "ERROR",
              analysis_components |->
                  [recent_performance |-> failed, historical_trends |-> failed,
                   opponent_matchup |-> failed, situational_factors |-> failed],
              wagerbrain_analysis |->
                  [error |-> error_msg, wagerbrain_engine |-> "error"],
              error |-> error_msg,
              analyzed_at |-> now])

\* the exception of the subscripts of line 191, "" when there is none
HeaderError(prop_data) ==
    IF prop_data.kind # "dict" THEN "TypeError"
    ELSE IF "player_name" \notin prop_data.has THEN "KeyError: player_name"
    ELSE IF "prop_type" \notin prop_data.has THEN "KeyError: prop_type"
    ELSE IF "line_value" \notin prop_data.has THEN "KeyError: line_value"
    ELSE ""

\* analyze_prop gets as far as its call of run_monte_carlo_simulation
AnalysisReachesMonteCarlo(prop_data) ==
    HeaderError(prop_data) = "" /\ MathReachesMonteCarlo(prop_data)

\* the outcome of analyze_prop read at time `now`, given what its call of
\* run_monte_carlo_simulation returns
AnalysisOutcome(config, prop_data, player_stats, opponent_data, now, monte_carlo_results) ==
    IF HeaderError(prop_data) # ""
    THEN create_error_analysis(prop_data, HeaderError(prop_data), now)
    ELSE IF "sport" \notin prop_data.has
    THEN create_error_analysis(prop_data, "KeyError: sport", now)
    ELSE Let1([recent_performance |-> analyze_recent_performance(player_stats, prop_data),
               historical_trends |-> analyze_historical_trends(player_stats, prop_data),
               opponent_matchup |-> analyze_opponent_matchup(opponent_data, prop_data),
               situational_factors |-> analyze_situational_factors(prop_data, player_stats)],
              LAMBDA components :
         Let1(calculate_confidence_score(config.factor_weights,
                  components.recent_performance, components.historical_trends,
                  components.opponent_matchup, components.situational_factors),
              LAMBDA confidence_score :
         Let1(wagerbrain_mathematical_analysis(config, prop_data, confidence_score,
                  player_stats, monte_carlo_results),
              LAMBDA wagerbrain_analysis :
              Returned(
                  [prop_id |-> GetOr(prop_data, "id", "None"),
                   player_name |-> prop_data.player_name,
                   prop_type |-> prop_data.prop_type,
                   line_value |-> prop_data.line_value,
                   sport |-> prop_data.sport,
                   confidence_score |-> Round(confidence_score, 3),
                   recommendation |->
                       generate_wagerbrain_recommendation(config, confidence_score,
                                                          wagerbrain_analysis),
                   analysis_components |-> components,
                   wagerbrain_analysis |-> wagerbrain_analysis,
                   analyzed_at |-> now]))))

\* analyze_prop called with the generator in state gen and run without
\* interruption: its outcome and the generator's state afterwards
analyze_prop(gen, config, prop_data, player_stats, opponent_data, now) ==
    Let1(run_monte_carlo_simulation(gen, config.monte_carlo_simulations,
                                    prop_data, player_stats), LAMBDA mc :
        [outcome |-> AnalysisOutcome(config, prop_data, player_stats, opponent_data,
                                     now, mc.result),
         gen |-> IF AnalysisReachesMonteCarlo(prop_data) THEN mc.gen ELSE gen])

\* result.get('error') is None
IsValid(result) == "error" \notin DOMAIN result

----------------------------------------------------------------------------
(* The arguments the callers of the model pass.                            *)

AllKeys == {"id", "player_name", "prop_type", "line_value", "sport", "odds"}

\* odds values: well-formed, zero-valued, unsigned, non-numeric, not a str
OddsInputs ==
    {OddsStr("+", 110), OddsStr("-", 110), OddsStr("-", 150), OddsStr("+", 250),
     OddsStr("+", 0), OddsStr("-", 0), OddsStr("", 110),
     OddsText("+"), OddsText(""), OddsNone, OddsInt("-", 150), OddsInt("", 0)}

\* the sample prop of the module's own test run (lines 1046-1053)
SampleProp(odds) ==
    Prop(AllKeys, "prop_001", "Mike Trout", "hits", Q(15, 10), "MLB", odds)

PropInputs ==
    {SampleProp(o) : o \in OddsInputs}
    \cup {Prop(AllKeys \ {"odds"}, "prop_002", "Luka Doncic", "points",
               Q(255, 10), "NBA", OddsNone),
          Prop(AllKeys \ {"sport", "id"}, "None", "Mike Trout", "hits",
               Q(15, 10), "None", OddsStr("+", 110)),
          Prop(AllKeys \ {"player_name"}, "prop_003", "None", "hits",
               Q(15, 10), "MLB", OddsStr("-", 110)),
          Prop({}, "None", "None", "None", Z(0), "None", OddsNone),
          NotAMapping}

StatsInputs ==
    {NoStats,
     Stats(NoAverages),
     Stats([t \in {"hits", "runs"} |-> IF t = "hits" THEN Q(18, 10) ELSE Q(12, 10)]),
     Stats([t \in {"hits"} |-> Q(12, 10)]),
     Stats([t \in {"points"} |-> Q(27, 1)])}

OpponentInputs ==
    {NoOpponent, Opponent({"era", "whip"}, Q(42, 10)), Opponent({"era"}, Q(5, 1))}

\* the default configuration, and the one of the module's own test run
\* (lines 1031-1039), each with the model's simulation count
Simulations == 4

ConfigInputs ==
    {AnalysisConfig(Q(75, 100), Q(65, 100), Q(55, 100), Q(25, 100), Simulations),
     AnalysisConfig(Q(80, 100), Q(70, 100), Q(60, 100), Q(20, 100), Simulations)}

MaxClock == 1

NoCall == [op |-> "none"]

NoBatch == [pc |-> "idle"]

----------------------------------------------------------------------------
(* The caller of one engine: it analyzes a prop, and may analyze the same  *)
(* prop again with the same arguments, while the clock runs.               *)

Init ==
    /\ cfg \in ConfigInputs
    /\ rng \in 0..(RngMod - 1)
    /\ clock = 0
    /\ call = NoCall
    /\ prev = NoCall
    /\ io = NoCall
    /\ batch = NoBatch
    /\ thr = <<>>

AnalyzeCall(prop_data, player_stats, opponent_data) ==
    \E r \in {analyze_prop(rng, cfg, prop_data, player_stats, opponent_data, clock)} :
        /\ call' = [op |-> "analyze_prop", prop_data |-> prop_data,
                    player_stats |-> player_stats, opponent_data |-> opponent_data,
                    outcome |-> r.outcome]
        /\ rng' = r.gen

AnalyzeProp ==
    /\ call = NoCall
    /\ \E prop_data \in PropInputs, player_stats \in StatsInputs,
          opponent_data \in OpponentInputs :
           AnalyzeCall(prop_data, player_stats, opponent_data)
    /\ UNCHANGED <<cfg, clock, prev, io, batch, thr>>

AnalyzeAgain ==
    /\ call.op = "analyze_prop"
    /\ prev = NoCall
    /\ AnalyzeCall(call.prop_data, call.player_stats, call.opponent_data)
    /\ prev' = call
    /\ UNCHANGED <<cfg, clock, io, batch, thr>>

Tick ==
    /\ clock < MaxClock
    /\ clock' = clock + 1
    /\ UNCHANGED <<cfg, rng, call, prev, io, batch, thr>>

Next == AnalyzeProp \/ AnalyzeAgain \/ Tick


Spec == Init /\ [][Next]_vars

----------------------------------------------------------------------------
(* The odds functions and the recommendation as functions of their         *)
(* arguments: the arguments are drawn at the start, each action applies    *)
(* one function to them.                                                   *)

\* true probabilities, the implied probabilities of the odds inputs among them
ProbInputs ==
    {Z(0), Q(1, 4), Q(2, 7), Q(10, 21), Q(1, 2), Q(11, 21), Q(3, 5), Q(3, 4), Z(1)}

OddsArgs == {[op |-> "odds", odds |-> o, prob |-> p] : o \in OddsInputs, p \in ProbInputs}

EVInputs == {Q(-4, 100), Q(-3, 100), Z(0), Q(2, 100), Q(3, 100), Q(5, 100), Q(6, 100)}

EdgeInputs == {Q(-6, 100), Q(-5, 100), Z(0), Q(1, 100), Q(2, 100), Q(3, 100), Q(4, 100)}

KellyInputs == {Z(0), Q(1, 100), Q(2, 100)}

ConfidenceInputs == {Q(1, 2), Q(65, 100), Q(7, 10), Q(75, 100), Q(8, 10)}

\* a wagerbrain_analysis dict with the keys of `has`
Analysis(has, expected_value, edge, kelly_size) ==
    [k \in has |-> IF k = "expected_value" THEN expected_value
                   ELSE IF k = "edge" THEN edge ELSE kelly_size]

AnalysisKeys == {"expected_value", "edge", "kelly_criterion"}

RecommendationArgs ==
    {[op |-> "recommendation", confidence_score |-> c,
      wagerbrain_analysis |-> Analysis(AnalysisKeys, ev, e, k)] :
        c \in ConfidenceInputs, ev \in EVInputs, e \in EdgeInputs, k \in KellyInputs}
    \cup {[op |-> "recommendation", confidence_score |-> Q(8, 10),
           wagerbrain_analysis |-> Analysis(has, Q(6, 100), Q(4, 100), Q(2, 100))] :
             has \in SUBSET AnalysisKeys}

\* recent averages as hundredths of the line: the bucket bounds and values
\* around them
RatioInputs == {0, 80, 85, 90, 95, 98, 100, 102, 105, 110, 115, 120, 150, 200}

LineInputs == {Z(1), Q(15, 10)}

\* the sample prop at a line, a smaller and a larger recent average
AverageArgs ==
    {[op |-> "averages", line_value |-> l, lower |-> RMul(Q(p[1], 100), l),
      higher |-> RMul(Q(p[2], 100), l), opponent_data |-> o] :
        l \in LineInputs,
        p \in {q \in RatioInputs \X RatioInputs : q[1] < q[2]},
        o \in OpponentInputs}

\* lines 194-205 of analyze_prop for the sample prop at line_value and a
\* player whose recent average of the prop's statistic is avg
ConfidenceAt(config, line_value, avg, opponent_data) ==
    Let1([SampleProp(OddsStr("+", 110)) EXCEPT !.line_value = line_value],
         LAMBDA prop_data :
    Let1(Stats([t \in {prop_data.prop_type} |-> avg]), LAMBDA player_stats :
    Let1(analyze_recent_performance(player_stats, prop_data), LAMBDA recent :
    Let1(analyze_historical_trends(player_stats, prop_data), LAMBDA historical :
         [recent |-> recent.score, historical |-> historical.score,
          confidence |->
              calculate_confidence_score(config.factor_weights, recent, historical,
                  analyze_opponent_matchup(opponent_data, prop_data),
                  analyze_situational_factors(prop_data, player_stats))]))))

\* magnitudes of American odds
MagnitudeInputs == {1, 100, 110, 120, 150, 200, 250}

\* two odds of one sign, the second of the larger magnitude
OddsPairArgs ==
    {[op |-> "odds_pair", lower |-> OddsStr(s, p[1]), higher |-> OddsStr(s, p[2])] :
        s \in {"+", "-"},
        p \in {q \in MagnitudeInputs \X MagnitudeInputs : q[1] < q[2]}}

InitFn ==
    /\ cfg \in ConfigInputs
    /\ rng = SeedState(Seed)
    /\ clock = 0
    /\ call = NoCall
    /\ prev = NoCall
    /\ io \in OddsArgs \cup RecommendationArgs \cup AverageArgs \cup OddsPairArgs
    /\ batch = NoBatch
    /\ thr = <<>>

Apply(op, result) ==
    /\ call = NoCall
    /\ call' = [op |-> op, result |-> result]
    /\ UNCHANGED <<cfg, rng, clock, prev, io, batch, thr>>

ImpliedProbability ==
    /\ io.op = "odds"
    /\ Apply("implied_probability", implied_probability(io.odds))

FallbackImpliedProbability ==
    /\ io.op = "odds"
    /\ Apply("fallback_implied_probability", fallback_implied_probability(io.odds))

KellyCriterion ==
    /\ io.op = "odds"
    /\ Apply("kelly_criterion", kelly_criterion(io.prob, io.odds))

FallbackKellyCriterion ==
    /\ io.op = "odds"
    /\ Apply("fallback_kelly_criterion", fallback_kelly_criterion(cfg, io.prob, io.odds))

GenerateRecommendation ==
    /\ io.op = "recommendation"
    /\ Apply("generate_wagerbrain_recommendation",
             generate_wagerbrain_recommendation(cfg, io.confidence_score,
                                                io.wagerbrain_analysis))

ConfidenceOfBoth ==
    /\ io.op = "averages"
    /\ Apply("confidence_of_both",
             [lower |-> ConfidenceAt(cfg, io.line_value, io.lower, io.opponent_data),
              higher |-> ConfidenceAt(cfg, io.line_value, io.higher, io.opponent_data)])

ImpliedOfBoth ==
    /\ io.op = "odds_pair"
    /\ Apply("implied_of_both",
             [lower |-> implied_probability(io.lower),
              higher |-> implied_probability(io.higher)])

NextFn ==
    \/ ConfidenceOfBoth
    \/ ImpliedOfBoth
    \/ ImpliedProbability
    \/ FallbackImpliedProbability
    \/ KellyCriterion
    \/ FallbackKellyCriterion
    \/ GenerateRecommendation

SpecFn == InitFn /\ [][NextFn]_vars

----------------------------------------------------------------------------
(* batch_analyze_props: one loop iteration per step, while the clock runs. *)

MaxProps == 2

\* the props a list is made of: the two sample props, a prop without a
\* player name, and an element that is not a mapping
BatchProps ==
    {SampleProp(OddsStr("+", 110)),
     Prop(AllKeys \ {"odds"}, "prop_002", "Luka Doncic", "points",
          Q(255, 10), "NBA", OddsNone),
     Prop(AllKeys \ {"player_name"}, "prop_003", "None", "hits",
          Q(15, 10), "MLB", OddsStr("-", 110)),
     NotAMapping}

Lists(S, n) == UNION {[1..k -> S] : k \in 0..n}

\* player_stats_dict and opponent_data_dict, keyed by player name
NoEntries == [name \in {} |-> NoStats]

StatsDictInputs ==
    {NoEntries,
     [name \in {"Mike Trout"} |-> Stats([t \in {"hits"} |-> Q(18, 10)])]}

OpponentDictInputs ==
    {[kind |-> "none", entries |-> NoEntries],
     [kind |-> "dict",
      entries |-> [name \in {"Mike Trout"} |-> Opponent({"era", "whip"}, Q(42, 10))]]}

\* d.get(key, default)
DictGet(d, key, default) == IF key \in DOMAIN d THEN d[key] ELSE default

\* prop_data.get('player_name'), of a mapping
PlayerNameOf(prop_data) == GetOr(prop_data, "player_name", "None")

\* opponent_data_dict.get(player_name) if opponent_data_dict else None
OpponentOf(opponent_data_dict, player_name) ==
    IF opponent_data_dict.kind = "dict" /\ DOMAIN opponent_data_dict.entries # {}
    THEN DictGet(opponent_data_dict.entries, player_name, NoOpponent)
    ELSE NoOpponent

\* one iteration of the loop of batch_analyze_props on prop_data: what it
\* appends or raises, and the generator's state afterwards.  On an element
\* that is not a mapping prop_data.get raises inside the try, and the
\* handler's create_error_analysis raises again
batch_iteration(gen, config, prop_data, player_stats_dict, opponent_data_dict, now) ==
    IF prop_data.kind # "dict"
    THEN [outcome |-> create_error_analysis(prop_data, "AttributeError", now),
          gen |-> gen]
    ELSE analyze_prop(gen, config, prop_data,
                      DictGet(player_stats_dict, PlayerNameOf(prop_data),
                              Stats(NoAverages)),
                      OpponentOf(opponent_data_dict, PlayerNameOf(prop_data)), now)

InitBatch ==
    /\ cfg \in ConfigInputs
    /\ rng \in 0..(RngMod - 1)
    /\ clock = 0
    /\ call = NoCall
    /\ prev = NoCall
    /\ io = NoCall
    /\ batch = NoBatch
    /\ thr = <<>>

BatchCall ==
    /\ batch.pc = "idle"
    /\ \E props_list \in Lists(BatchProps, MaxProps),
          player_stats_dict \in StatsDictInputs,
          opponent_data_dict \in OpponentDictInputs :
           batch' = [pc |-> "loop", props_list |-> props_list,
                     player_stats_dict |-> player_stats_dict,
                     opponent_data_dict |-> opponent_data_dict,
                     results |-> <<>>]
    /\ UNCHANGED <<cfg, rng, clock, call, prev, io, thr>>

BatchIteration ==
    /\ batch.pc = "loop"
    /\ Len(batch.results) < Len(batch.props_list)
    /\ \E r \in {batch_iteration(rng, cfg, batch.props_list[Len(batch.results) + 1],
                                 batch.player_stats_dict, batch.opponent_data_dict,
                                 clock)} :
           /\ batch' = IF r.outcome.raised
                       THEN [batch EXCEPT !.pc = "raised"]
                       ELSE [batch EXCEPT !.results = Append(@, r.outcome.result)]
           /\ rng' = r.gen
    /\ UNCHANGED <<cfg, clock, call, prev, io, thr>>

BatchReturn ==
    /\ batch.pc = "loop"
    /\ Len(batch.results) = Len(batch.props_list)
    /\ batch' = [batch EXCEPT !.pc = "returned"]
    /\ UNCHANGED <<cfg, rng, clock, call, prev, io, thr>>

NextBatch == BatchCall \/ BatchIteration \/ BatchReturn \/ Tick

SpecBatch == InitBatch /\ [][NextBatch]_vars

----------------------------------------------------------------------------
(* Concurrent analyze_prop calls, each on its own engine and arguments.    *)
(* np.random is the one generator of the process: np.random.seed and       *)
(* np.random.normal are two calls on it, and another call's steps may run  *)
(* between them.                                                           *)

Threads == 1..2

\* what one concurrent call is given
ThreadInputs ==
    {[config |-> c, prop_data |-> SampleProp(OddsStr("+", 110)),
      player_stats |-> s, opponent_data |-> NoOpponent] :
        c \in ConfigInputs,
        s \in {Stats(NoAverages), Stats([t \in {"hits"} |-> Q(18, 10)]),
               Stats([t \in {"hits"} |-> Q(12, 10)])}}

NoResult == [note |-> "none"]

InitThreads ==
    /\ cfg \in ConfigInputs
    /\ rng \in 0..(RngMod - 1)
    /\ clock = 0
    /\ call = NoCall
    /\ prev = NoCall
    /\ io = NoCall
    /\ batch = NoBatch
    /\ thr \in [Threads -> {[pc |-> "start", args |-> a, monte_carlo |-> NoResult,
                             outcome |-> NoResult] : a \in ThreadInputs}]

\* the call's Monte Carlo step gets as far as np.random.seed(42)
ThreadSeeds(t) ==
    /\ AnalysisReachesMonteCarlo(thr[t].args.prop_data)
    /\ MonteCarloSeeds(thr[t].args.prop_data, thr[t].args.player_stats)

\* np.random.seed(42)
SeedGenerator(t) ==
    /\ thr[t].pc = "start"
    /\ ThreadSeeds(t)
    /\ rng' = SeedState(Seed)
    /\ thr' = [thr EXCEPT ![t].pc = "seeded"]
    /\ UNCHANGED <<cfg, clock, call, prev, io, batch>>

\* np.random.normal(recent_avg, std_dev, simulations) and the rest of the step
SampleGenerator(t) ==
    /\ thr[t].pc = "seeded"
    /\ thr' = [thr EXCEPT ![t].pc = "sampled",
                          ![t].monte_carlo =
                              MonteCarloFrom(rng, thr[t].args.config.monte_carlo_simulations,
                                             thr[t].args.prop_data,
                                             thr[t].args.player_stats)]
    /\ rng' = IF MonteCarloSamples(thr[t].args.prop_data, thr[t].args.player_stats)
              THEN Advance(rng, thr[t].args.config.monte_carlo_simulations)
              ELSE rng
    /\ UNCHANGED <<cfg, clock, call, prev, io, batch>>

\* a call whose Monte Carlo step returns before it touches the generator
SkipGenerator(t) ==
    /\ thr[t].pc = "start"
    /\ ~ThreadSeeds(t)
    /\ thr' = [thr EXCEPT ![t].pc = "sampled",
                          ![t].monte_carlo =
                              MonteCarloFrom(rng, thr[t].args.config.monte_carlo_simulations,
                                             thr[t].args.prop_data,
                                             thr[t].args.player_stats)]
    /\ UNCHANGED <<cfg, rng, clock, call, prev, io, batch>>

\* the rest of analyze_prop, up to its return
ThreadReturn(t) ==
    /\ thr[t].pc = "sampled"
    /\ thr' = [thr EXCEPT ![t].pc = "done",
                          ![t].outcome =
                              AnalysisOutcome(thr[t].args.config, thr[t].args.prop_data,
                                              thr[t].args.player_stats,
                                              thr[t].args.opponent_data, clock,
                                              thr[t].monte_carlo)]
    /\ UNCHANGED <<cfg, rng, clock, call, prev, io, batch>>

NextThreads ==
    \E t \in Threads :
        \/ SeedGenerator(t)
        \/ SampleGenerator(t)
        \/ SkipGenerator(t)
        \/ ThreadReturn(t)

SpecThreads == InitThreads /\ [][NextThreads]_vars

----------------------------------------------------------------------------
(* run_monte_carlo_simulation called again and again, with other draws     *)
(* from the generator in between.  prev keeps, for each pair of arguments, *)
(* the first call made with it; call.seeded tells whether the generator    *)
(* happened to be in the seeded state when the call was made, call.again   *)
(* whether the arguments had been used before.                             *)

SimulationProps ==
    {SampleProp(OddsStr("+", 110)),
     Prop(AllKeys \ {"odds"}, "prop_002", "Luka Doncic", "points",
          Q(255, 10), "NBA", OddsNone)}

SimulationStats ==
    {Stats(NoAverages),
     Stats([t \in {"hits", "runs"} |-> IF t = "hits" THEN Q(18, 10) ELSE Q(12, 10)]),
     Stats([t \in {"hits"} |-> Q(18, 10)])}

InitMonteCarlo ==
    /\ cfg \in ConfigInputs
    /\ rng \in 0..(RngMod - 1)
    /\ clock = 0
    /\ call = NoCall
    /\ prev = {}
    /\ io = NoCall
    /\ batch = NoBatch
    /\ thr = <<>>

\* the calls of prev made with these arguments
FirstCalls(prop_data, player_stats) ==
    {h \in prev : h.prop_data = prop_data /\ h.player_stats = player_stats}

RunMonteCarloSimulation ==
    /\ \E prop_data \in SimulationProps, player_stats \in SimulationStats :
       \E r \in {run_monte_carlo_simulation(rng, cfg.monte_carlo_simulations,
                                            prop_data, player_stats)} :
           /\ call' = [op |-> "run_monte_carlo_simulation", prop_data |-> prop_data,
                       player_stats |-> player_stats, result |-> r.result,
                       seeded |-> rng = SeedState(Seed),
                       again |-> FirstCalls(prop_data, player_stats) # {}]
           /\ prev' = IF FirstCalls(prop_data, player_stats) = {}
                      THEN prev \cup {[prop_data |-> prop_data,
                                       player_stats |-> player_stats,
                                       result |-> r.result]}
                      ELSE prev
           /\ rng' = r.gen
    /\ UNCHANGED <<cfg, clock, io, batch, thr>>

\* any other user of np.random draws a number
OtherDraw ==
    /\ rng' = NextState(rng)
    /\ UNCHANGED <<cfg, clock, call, prev, io, batch, thr>>

NextMonteCarlo == RunMonteCarloSimulation \/ OtherDraw

SpecMonteCarlo == InitMonteCarlo /\ [][NextMonteCarlo]_vars

----------------------------------------------------------------------------
(* The claims about analyze_prop, checked under Spec.                      *)

\* C1: analyze_prop returns a result object for every prop submitted and
\* never raises to its caller, whatever its three arguments are.
C1_AlwaysAResult == call.op = "analyze_prop" => ~call.outcome.raised

\* C5: in every result of analyze_prop the reported Kelly fraction is at
\* least 0 and at most the engine's configured kelly_max_fraction.
C5_KellyWithinConfiguredCap ==
    (/\ call.op = "analyze_prop"
     /\ ~call.outcome.raised
     /\ "kelly_criterion" \in DOMAIN call.outcome.result.wagerbrain_analysis)
    => /\ RLe(Z(0), call.outcome.result.wagerbrain_analysis.kelly_criterion)
       /\ RLe(call.outcome.result.wagerbrain_analysis.kelly_criterion,
              cfg.kelly_max_fraction)

\* C6: when the odds of the prop are missing or malformed (None, not a str,
\* a str without a leading sign, or a sign followed by non-numeric text), the
\* implied probability, the expected value (which carries the per-unit
\* profit) and the Kelly fraction of the result are those the same call
\* yields with odds '-110'.
C6_MalformedOddsAreMinus110 ==
    (/\ call.op = "analyze_prop"
     /\ ~call.outcome.raised
     /\ "error" \notin DOMAIN call.outcome.result
     /\ \/ ~HasKey(call.prop_data, "odds")
        \/ ~(/\ call.prop_data.odds.ty = "str"
             /\ call.prop_data.odds.sign \in {"+", "-"}
             /\ call.prop_data.odds.num))
    => LET got == call.outcome.result.wagerbrain_analysis
           with_default ==
               [call.prop_data EXCEPT !.odds = OddsStr("-", 110),
                                      !.has = @ \cup {"odds"}]
           want == AnalysisOutcome(cfg, with_default, call.player_stats,
                                   call.opponent_data, clock,
                                   got.monte_carlo).result.wagerbrain_analysis
       IN  /\ got.implied_probability = Round(Q(110, 210), 4)
           /\ got.implied_probability = want.implied_probability
           /\ got.expected_value = want.expected_value
           /\ got.kelly_criterion = want.kelly_criterion

\* C9 as stated: two invocations of analyze_prop with identical prop, player
\* stats and opponent context yield results identical in every field.
C9_IdenticalInEveryField == prev # NoCall => prev.outcome = call.outcome

\* C9, amended: two invocations of analyze_prop with identical arguments
\* yield results identical in every field other than analyzed_at (and raise
\* the same exception when they raise).
C9_IdenticalButTimestamp ==
    prev # NoCall =>
        IF prev.outcome.raised \/ call.outcome.raised
        THEN prev.outcome = call.outcome
        ELSE [prev.outcome.result EXCEPT !.analyzed_at = 0]
             = [call.outcome.result EXCEPT !.analyzed_at = 0]

\* C9's case: a prop whose Monte Carlo step sampled is analyzed a second
\* time, later, from another state of the generator
C9_AnalyzedTwiceLater ==
    /\ prev # NoCall
    /\ ~call.outcome.raised
    /\ "error" \notin DOMAIN call.outcome.result
    /\ "percentiles" \in DOMAIN call.outcome.result.wagerbrain_analysis.monte_carlo
    /\ prev.outcome.result.analyzed_at # call.outcome.result.analyzed_at
    /\ rng # SeedState(Seed)

----------------------------------------------------------------------------
(* The claims about the odds functions and the recommendation, checked     *)
(* under SpecFn.                                                           *)

\* C2: generate_wagerbrain_recommendation decides first match wins: with
\* expected value > 0.05, edge > 0.03 and Kelly > 0.01 it returns STRONG_BET
\* at confidence >= the high threshold, MODERATE_BET at confidence >= the
\* medium threshold, else WEAK_BET; otherwise WEAK_BET when expected value >
\* 0.02 and edge > the minimum edge threshold; otherwise STRONG_AVOID when
\* expected value < -0.03 or edge < -0.05; otherwise AVOID.  The result is one
\* of the five categories, and is STRONG_BET or MODERATE_BET only when all
\* three conditions of the first branch hold.
C2_FirstMatchWins ==
    call.op = "generate_wagerbrain_recommendation" =>
        LET a == io.wagerbrain_analysis
            ev == IF "expected_value" \in DOMAIN a THEN a.expected_value ELSE Z(0)
            e == IF "edge" \in DOMAIN a THEN a.edge ELSE Z(0)
            k == IF "kelly_criterion" \in DOMAIN a THEN a.kelly_criterion ELSE Z(0)
            first == RLt(Q(5, 100), ev) /\ RLt(Q(3, 100), e) /\ RLt(Q(1, 100), k)
        IN  /\ call.result \in {"STRONG_BET", "MODERATE_BET", "WEAK_BET",
                                "AVOID", "STRONG_AVOID"}
            /\ call.result \in {"STRONG_BET", "MODERATE_BET"} => first
            /\ call.result =
                 IF first
                 THEN IF RLe(cfg.high, io.confidence_score) THEN "STRONG_BET"
                      ELSE IF RLe(cfg.medium, io.confidence_score) THEN "MODERATE_BET"
                      ELSE "WEAK_BET"
                 ELSE IF RLt(Q(2, 100), ev) /\ RLt(cfg.min_edge_threshold, e)
                 THEN "WEAK_BET"
                 ELSE IF RLt(ev, Q(-3, 100)) \/ RLt(e, Q(-5, 100))
                 THEN "STRONG_AVOID"
                 ELSE "AVOID"

\* C2's case: expected value and edge pass the first branch, the Kelly
\* fraction does not, and the recommendation falls through to WEAK_BET at a
\* confidence that would have made it STRONG_BET
C2_KellyHoldsBack ==
    /\ call.op = "generate_wagerbrain_recommendation"
    /\ DOMAIN io.wagerbrain_analysis = AnalysisKeys
    /\ RLt(Q(5, 100), io.wagerbrain_analysis.expected_value)
    /\ RLt(Q(3, 100), io.wagerbrain_analysis.edge)
    /\ ~RLt(Q(1, 100), io.wagerbrain_analysis.kelly_criterion)
    /\ RLe(cfg.high, io.confidence_score)
    /\ call.result = "WEAK_BET"

\* C7: the implied probability is 100/(o+100) for positive odds o and
\* |o|/(|o|+100) for negative odds o, and for every odds input, sign-prefixed
\* zero and malformed ones included, it is strictly between 0 and 1.
C7_ImpliedStrictlyBetween ==
    call.op \in {"implied_probability", "fallback_implied_probability"} =>
        /\ (IsSignedStr(io.odds) /\ io.odds.num /\ io.odds.mag > 0) =>
               call.result = IF io.odds.sign = "+"
                             THEN Q(100, io.odds.mag + 100)
                             ELSE Q(io.odds.mag, io.odds.mag + 100)
        /\ RLt(Z(0), call.result)
        /\ RLt(call.result, Z(1))

----------------------------------------------------------------------------
(* The claim about batch_analyze_props, checked under SpecBatch.           *)

\* C3: batch_analyze_props never raises, and returns exactly one result per
\* input prop, in input order, an error-tagged one for a prop whose analysis
\* fails.
C3_OneResultPerProp ==
    /\ batch.pc # "raised"
    /\ batch.pc = "returned" =>
           /\ Len(batch.results) = Len(batch.props_list)
           /\ \A i \in 1..Len(batch.props_list) :
                  /\ batch.props_list[i].kind # "dict" =>
                         batch.results[i].recommendation = "ERROR"
                  /\ batch.props_list[i].kind = "dict" =>
                         batch.results[i].prop_id
                             = GetOr(batch.props_list[i], "id", "None")

----------------------------------------------------------------------------
(* The claim about concurrent analyses, checked under SpecThreads.         *)

\* C4: under every interleaving of the steps of concurrent analyze_prop
\* calls, each call returns exactly the result it returns when run alone.
C4_AsWhenRunAlone ==
    \A t \in Threads :
        thr[t].pc = "done" =>
            thr[t].outcome
                = analyze_prop(rng, thr[t].args.config, thr[t].args.prop_data,
                               thr[t].args.player_stats, thr[t].args.opponent_data,
                               clock).outcome

----------------------------------------------------------------------------
(* The claim about run_monte_carlo_simulation, checked under               *)
(* SpecMonteCarlo.                                                         *)

\* C10: after any sequence of earlier simulations and other draws from the
\* generator, a sampling call with the same average, line and simulation
\* count as an earlier sampling call returns the same hit_rate_over,
\* percentiles and simulation standard deviation as the first such call.
C10_Reproducible ==
    call.op = "run_monte_carlo_simulation" =>
        \A h \in prev :
            (/\ MonteCarloSamples(h.prop_data, h.player_stats)
             /\ MonteCarloSamples(call.prop_data, call.player_stats)
             /\ h.prop_data.line_value = call.prop_data.line_value
             /\ AverageOrLine(h.player_stats, h.prop_data)
                    = AverageOrLine(call.player_stats, call.prop_data)
             /\ h.result.simulations = call.result.simulations)
            => /\ h.result.hit_rate_over = call.result.hit_rate_over
               /\ h.result.percentiles = call.result.percentiles
               /\ h.result.simulation_std = call.result.simulation_std

\* C10's case: a sampling call repeats the arguments of an earlier call,
\* after simulations with other arguments, with the generator left in another
\* state than the seeded one
C10_RepeatedFromAnotherState ==
    /\ call.op = "run_monte_carlo_simulation"
    /\ call.again
    /\ ~call.seeded
    /\ MonteCarloSamples(call.prop_data, call.player_stats)
    /\ "percentiles" \in DOMAIN call.result
    /\ \E h \in prev : h.prop_data # call.prop_data

----------------------------------------------------------------------------
(* More claims about analyze_prop, checked under Spec.                     *)

\* C11: a result of analyze_prop is ERROR-tagged (recommendation 'ERROR',
\* confidence 0, error text present) exactly when the prop lacks its player
\* name, statistic type, line value or sport; missing or partial player
\* stats, missing opponent context, malformed odds or a failing sub-analysis
\* never tag the result.
C11_ErrorIffNoTopLevelField ==
    (call.op = "analyze_prop" /\ ~call.outcome.raised) =>
        LET r == call.outcome.result
            lacks == {"player_name", "prop_type", "line_value", "sport"}
                         \ call.prop_data.has
        IN  /\ r.recommendation = "ERROR" <=> lacks # {}
            /\ "error" \in DOMAIN r <=> lacks # {}
            /\ lacks # {} => r.confidence_score = Z(0)

\* C11's case: player stats that are no mapping, odds that are no numeral and
\* a recent-form sub-analysis that failed, in a result that is not tagged
C11_DegradedButNotTagged ==
    /\ call.op = "analyze_prop"
    /\ ~call.outcome.raised
    /\ call.player_stats.kind = "none"
    /\ call.opponent_data.kind = "none"
    /\ call.prop_data.odds = OddsText("+")
    /\ call.outcome.result.analysis_components.recent_performance.trend = "error"
    /\ call.outcome.result.recommendation \in Categories

\* C12: for a prop with its identity fields present, analyze_prop(prop, {})
\* returns a non-error result with confidence in [0,1], a recommendation
\* among the five categories, recent-form, historical and opponent sub-scores
\* of 0.5, and the insufficient_data statistical and Monte Carlo blocks
\* (volatility 0.1; hit_rate_over 0.5, simulations 0).
C12_GracefulDegradation ==
    (/\ call.op = "analyze_prop"
     /\ call.prop_data.kind = "dict"
     /\ {"player_name", "prop_type", "line_value", "sport"} \subseteq call.prop_data.has
     /\ call.player_stats = Stats(NoAverages)
     /\ call.opponent_data = NoOpponent)
    => /\ ~call.outcome.raised
       /\ LET r == call.outcome.result
          IN  /\ "error" \notin DOMAIN r
              /\ RLe(Z(0), r.confidence_score) /\ RLe(r.confidence_score, Z(1))
              /\ r.recommendation \in {"STRONG_BET", "MODERATE_BET", "WEAK_BET",
                                        "AVOID", "STRONG_AVOID"}
              /\ r.analysis_components.recent_performance.score = Q(1, 2)
              /\ r.analysis_components.historical_trends.score = Q(1, 2)
              /\ r.analysis_components.opponent_matchup.score = Q(1, 2)
              /\ r.wagerbrain_analysis.statistical_analysis.volatility = Q(1, 10)
              /\ r.wagerbrain_analysis.monte_carlo.hit_rate_over = Q(1, 2)
              /\ "simulations" \in DOMAIN r.wagerbrain_analysis.monte_carlo
              /\ r.wagerbrain_analysis.monte_carlo.simulations = 0

\* the call of scenario 1: the default configuration, the sample prop (hits,
\* line 1.5, odds '+110'), avg_hits 1.8, no opponent context
Scenario1Call ==
    /\ call.op = "analyze_prop"
    /\ cfg = AnalysisConfig(Q(75, 100), Q(65, 100), Q(55, 100), Q(25, 100), Simulations)
    /\ call.prop_data = SampleProp(OddsStr("+", 110))
    /\ call.player_stats.kind = "dict"
    /\ "hits" \in DOMAIN call.player_stats.recent_averages
    /\ call.player_stats.recent_averages["hits"] = Q(18, 10)
    /\ call.opponent_data = NoOpponent

\* C13 as stated: in scenario 1 the recent-form ratio is 1.2, the recent-form
\* score is 0.80 and the recommendation is STRONG_BET or MODERATE_BET.
C13_Scenario1StrongOrModerate ==
    Scenario1Call =>
        /\ ~call.outcome.raised
        /\ call.outcome.result.analysis_components.recent_performance.avg_vs_line_ratio
               = Q(12, 10)
        /\ call.outcome.result.analysis_components.recent_performance.score = Q(80, 100)
        /\ call.outcome.result.recommendation \in {"STRONG_BET", "MODERATE_BET"}

\* C13, amended: in scenario 1 the recent-form ratio is 1.2, the recent-form
\* score is 0.80, the confidence is 0.63, below the medium threshold, and the
\* recommendation is WEAK_BET (a bet category, not AVOID or STRONG_AVOID).
C13_Scenario1WeakBet ==
    Scenario1Call =>
        /\ ~call.outcome.raised
        /\ call.outcome.result.analysis_components.recent_performance.avg_vs_line_ratio
               = Q(12, 10)
        /\ call.outcome.result.analysis_components.recent_performance.score = Q(80, 100)
        /\ call.outcome.result.confidence_score = Q(63, 100)
        /\ RLt(call.outcome.result.confidence_score, cfg.medium)
        /\ call.outcome.result.recommendation = "WEAK_BET"

\* C13's case: scenario 1 has been analyzed, its Monte Carlo step sampled
C13_Scenario1Analyzed ==
    /\ Scenario1Call
    /\ "percentiles" \in DOMAIN call.outcome.result.wagerbrain_analysis.monte_carlo
    /\ RLt(Q(5, 100), call.outcome.result.wagerbrain_analysis.expected_value)

\* the call of scenario 2: the default configuration, a points prop with line
\* 25.5 and no quoted odds, empty player stats
Scenario2Call ==
    /\ call.op = "analyze_prop"
    /\ cfg = AnalysisConfig(Q(75, 100), Q(65, 100), Q(55, 100), Q(25, 100), Simulations)
    /\ call.prop_data.kind = "dict"
    /\ call.prop_data.has = AllKeys \ {"odds"}
    /\ call.prop_data.prop_type = "points"
    /\ call.prop_data.line_value = Q(255, 10)
    /\ call.player_stats = Stats(NoAverages)

\* C14 as stated: in scenario 2 the confidence is the neutral 0.5 and the
\* recommendation is AVOID.
C14_Scenario2Avoid ==
    Scenario2Call =>
        /\ ~call.outcome.raised
        /\ call.outcome.result.confidence_score = Q(1, 2)
        /\ call.outcome.result.recommendation = "AVOID"

\* C14, amended: in scenario 2 the confidence is the neutral 0.5, the
\* expected value at the default odds -110 is below -0.03, and the
\* recommendation is STRONG_AVOID (not a bet category).
C14_Scenario2StrongAvoid ==
    Scenario2Call =>
        /\ ~call.outcome.raised
        /\ call.outcome.result.confidence_score = Q(1, 2)
        /\ call.outcome.result.wagerbrain_analysis.expected_value = Q(-455, 10000)
        /\ call.outcome.result.wagerbrain_analysis.edge = Q(-238, 10000)
        /\ call.outcome.result.recommendation = "STRONG_AVOID"

\* C14's case: scenario 2 has been analyzed at the implied probability of -110
C14_Scenario2Analyzed ==
    /\ Scenario2Call
    /\ call.outcome.result.wagerbrain_analysis.implied_probability = Q(5238, 10000)
    /\ call.outcome.result.wagerbrain_analysis.monte_carlo.simulations = 0

----------------------------------------------------------------------------
(* More claims about the functions, checked under SpecFn.                  *)

\* C15: with line (> 0), odds, opponent context and sport fixed, a larger
\* recent average of the prop's statistic never yields a smaller recent-form
\* sub-score and never yields a smaller confidence score.
C15_MonotoneInAverage ==
    call.op = "confidence_of_both" =>
        /\ RLe(call.result.lower.recent, call.result.higher.recent)
        /\ RLe(call.result.lower.confidence, call.result.higher.confidence)
        /\ RLe(Round(call.result.lower.confidence, 3),
               Round(call.result.higher.confidence, 3))

\* C15's case: the larger average falls in a higher bucket and raises the
\* confidence
C15_HigherBucketReached ==
    /\ call.op = "confidence_of_both"
    /\ RLt(io.lower, io.higher)
    /\ RLt(call.result.lower.recent, call.result.higher.recent)
    /\ RLt(call.result.lower.confidence, call.result.higher.confidence)

\* C16 as stated: the implied probability decreases as positive odds
\* increase, and decreases, toward 0, as the magnitude of negative odds
\* increases.
C16_DecreasingForBothSigns ==
    call.op = "implied_of_both" =>
        /\ RLt(call.result.higher, call.result.lower)
        /\ RLt(Z(0), call.result.higher)

\* C16, amended: the implied probability decreases, toward 0, as positive
\* odds increase, and increases, toward 1, as the magnitude of negative odds
\* increases.
C16_DecreasingPlusIncreasingMinus ==
    call.op = "implied_of_both" =>
        IF io.lower.sign = "+"
        THEN RLt(call.result.higher, call.result.lower) /\ RLt(Z(0), call.result.higher)
        ELSE RLt(call.result.lower, call.result.higher) /\ RLt(call.result.higher, Z(1))

\* C16's case: -110 against -200
C16_Minus110AgainstMinus200 ==
    /\ call.op = "implied_of_both"
    /\ io.lower = OddsStr("-", 110)
    /\ io.higher = OddsStr("-", 200)
    /\ call.result = [lower |-> Q(110, 210), higher |-> Q(200, 300)]

----------------------------------------------------------------------------
(* Python floats where the order of the additions matters: IEEE 754        *)
(* binary64, as a sign and a magnitude.  The magnitude is a whole number   *)
(* of units of 2^-72 held in limbs of 12 bits, least significant first.    *)

LimbBits == 12

LimbBase == 4096

Limbs == 8

FractionLimbs == 6

MantissaBits == 53

RECURSIVE Pow2(_)
Pow2(k) == IF k = 0 THEN 1 ELSE 2 * Pow2(k - 1)

RECURSIVE BitLength(_)
BitLength(n) == IF n = 0 THEN 0 ELSE 1 + BitLength(n \div 2)

BigZero == [i \in 1..Limbs |-> 0]

\* the natural n, in units of 2^-72
BigOfNat(n) ==
    [i \in 1..Limbs |-> IF i = FractionLimbs + 1 THEN n % LimbBase
                        ELSE IF i = FractionLimbs + 2 THEN n \div LimbBase
                        ELSE 0]

RECURSIVE CarryInto(_, _, _)
CarryInto(a, b, i) ==
    IF i = 1 THEN 0
    ELSE (a[i - 1] + b[i - 1] + CarryInto(a, b, i - 1)) \div LimbBase

BigAdd(a, b) ==
    [i \in 1..Limbs |-> (a[i] + b[i] + CarryInto(a, b, i)) % LimbBase]

RECURSIVE BorrowInto(_, _, _)
BorrowInto(a, b, i) ==
    IF i = 1 THEN 0
    ELSE IF a[i - 1] - b[i - 1] - BorrowInto(a, b, i - 1) < 0 THEN 1 ELSE 0

\* a - b for a >= b
BigSub(a, b) ==
    [i \in 1..Limbs |-> (a[i] - b[i] - BorrowInto(a, b, i) + LimbBase) % LimbBase]

BigLess(a, b) ==
    \E i \in 1..Limbs : a[i] < b[i] /\ \A j \in (i + 1)..Limbs : a[j] = b[j]

RECURSIVE CarryOfProduct(_, _, _)
CarryOfProduct(a, m, i) ==
    IF i = 1 THEN 0
    ELSE (a[i - 1] * m + CarryOfProduct(a, m, i - 1)) \div LimbBase

\* a * m for a small natural m
BigTimes(a, m) ==
    [i \in 1..Limbs |-> (a[i] * m + CarryOfProduct(a, m, i)) % LimbBase]

\* the remainder of limbs i..Limbs of a divided by the small natural n
RECURSIVE RemainderFrom(_, _, _)
RemainderFrom(a, n, i) ==
    IF i > Limbs THEN 0
    ELSE (RemainderFrom(a, n, i + 1) * LimbBase + a[i]) % n

BigDiv(a, n) ==
    [i \in 1..Limbs |-> (RemainderFrom(a, n, i + 1) * LimbBase + a[i]) \div n]

BigMod(a, n) == RemainderFrom(a, n, 1)

TopLimb(a) == CHOOSE i \in 1..Limbs : a[i] # 0 /\ \A j \in (i + 1)..Limbs : a[j] = 0

BigBitLength(a) ==
    IF a = BigZero THEN 0
    ELSE LimbBits * (TopLimb(a) - 1) + BitLength(a[TopLimb(a)])

\* bit pos of a, counted from 1 at the least significant end
Bit(a, pos) ==
    (a[(pos - 1) \div LimbBits + 1] \div Pow2((pos - 1) % LimbBits)) % 2

\* a with its d lowest bits cleared, and 2^d
ClearLow(a, d) ==
    [i \in 1..Limbs |->
        IF i * LimbBits <= d THEN 0
        ELSE IF (i - 1) * LimbBits >= d THEN a[i]
        ELSE (a[i] \div Pow2(d - (i - 1) * LimbBits)) * Pow2(d - (i - 1) * LimbBits)]

BigPow2(d) ==
    [i \in 1..Limbs |-> IF i = d \div LimbBits + 1 THEN Pow2(d % LimbBits) ELSE 0]

\* a, with more of the value below it when inexact, rounded to the nearest
\* magnitude of 53 significant bits, ties to even
RoundToMantissa(a, inexact) ==
    Let1(BigBitLength(a) - MantissaBits, LAMBDA d :
        IF d <= 0 THEN a
        ELSE IF /\ Bit(a, d) = 1
                /\ \/ inexact
                   \/ \E pos \in 1..(d - 1) : Bit(a, pos) = 1
                   \/ Bit(a, d + 1) = 1
             THEN BigAdd(ClearLow(a, d), BigPow2(d))
             ELSE ClearLow(a, d))

Float(neg, mag) == [neg |-> neg /\ mag # BigZero, mag |-> mag]

\* the float nearest to the rational q (q is a decimal that round() returned)
FloatOf(q) ==
    Let1(BigOfNat(Abs(q[1])), LAMBDA n :
         Float(q[1] < 0, RoundToMantissa(BigDiv(n, q[2]), BigMod(n, q[2]) # 0)))

\* x + y
FloatAdd(x, y) ==
    IF x.neg = y.neg
    THEN Float(x.neg, RoundToMantissa(BigAdd(x.mag, y.mag), FALSE))
    ELSE IF BigLess(x.mag, y.mag)
    THEN Float(y.neg, RoundToMantissa(BigSub(y.mag, x.mag), FALSE))
    ELSE Float(x.neg, RoundToMantissa(BigSub(x.mag, y.mag), FALSE))

\* x / n for an int n > 0
FloatDiv(x, n) ==
    Float(x.neg, RoundToMantissa(BigDiv(x.mag, n), BigMod(x.mag, n) # 0))

\* total += value for each value in turn, total starting at 0
RECURSIVE Accumulate(_, _)
Accumulate(total, values) ==
    IF values = <<>> THEN total
    ELSE Accumulate(FloatAdd(total, FloatOf(Head(values))), Tail(values))

\* round(x, k): the decimal of k places nearest to x, ties to even
RoundFloat(x, k) ==
    Let1(BigTimes(x.mag, Pow10(k)), LAMBDA p :
    Let1(p[FractionLimbs + 1] + LimbBase * p[FractionLimbs + 2], LAMBDA whole :
    Let1(\E i \in 1..(FractionLimbs - 1) : p[i] # 0, LAMBDA rest :
    Let1(IF \/ p[FractionLimbs] > LimbBase \div 2
            \/ p[FractionLimbs] = LimbBase \div 2 /\ (rest \/ whole % 2 = 1)
         THEN whole + 1 ELSE whole, LAMBDA nearest :
         Q(IF x.neg THEN -nearest ELSE nearest, Pow10(k))))))

----------------------------------------------------------------------------
(* Summaries over lists of results: get_analysis_summary and its helpers.  *)

\* np.mean(values)
Mean(values) == RDiv(Sum(values), Z(Len(values)))

\* np.median(values)
Median(values) ==
    Let1(Sorted(values), LAMBDA sorted :
    Let1(Len(sorted), LAMBDA n :
         IF n % 2 = 1 THEN sorted[(n + 1) \div 2]
         ELSE RDiv(RAdd(sorted[n \div 2], sorted[n \div 2 + 1]), Z(2))))

\* min(values) and max(values)
Least(values) == Sorted(values)[1]

Greatest(values) == Sorted(values)[Len(values)]

\* values.count(v), and sum(1 for v in values if v > 0)
Count(values, v) == Cardinality({i \in 1..Len(values) : values[i] = v})

PositiveCount(values) == Cardinality({i \in 1..Len(values) : RLt(Z(0), values[i])})

\* r.get(key, 0) of every result's wagerbrain_analysis, in list order
Metric(results, key) ==
    [i \in 1..Len(results) |-> GetOrZero(results[i].wagerbrain_analysis, key)]

\* _get_sports_breakdown(results): per sport its count, the rounded averages
\* and the count of each recommendation seen for it
SportsOf(results) == {results[i].sport : i \in 1..Len(results)}

get_sports_breakdown(results) ==
    [sport \in SportsOf(results) |->
        Let1(SelectSeq(results, LAMBDA r : r.sport = sport), LAMBDA of_sport :
        Let1([i \in 1..Len(of_sport) |-> of_sport[i].recommendation], LAMBDA recs :
            [count |-> Len(of_sport),
             avg_confidence |->
                 RoundFloat(FloatDiv(Accumulate(Float(FALSE, BigZero),
                                         [i \in 1..Len(of_sport) |->
                                              of_sport[i].confidence_score]),
                                     Len(of_sport)), 3),
             avg_expected_value |->
                 RoundFloat(FloatDiv(Accumulate(Float(FALSE, BigZero),
                                         Metric(of_sport, "expected_value")),
                                     Len(of_sport)), 4),
             recommendations |->
                 [rec \in {recs[i] : i \in 1..Len(recs)} |-> Count(recs, rec)]]))]

\* the summary dict built from the valid results (lines 804-844)
SummaryOf(results, valid_results, now) ==
    Let1([i \in 1..Len(valid_results) |-> valid_results[i].recommendation],
         LAMBDA recommendations :
    Let1([i \in 1..Len(valid_results) |-> valid_results[i].confidence_score],
         LAMBDA confidence_scores :
    Let1(Metric(valid_results, "expected_value"), LAMBDA expected_values :
    Let1(Metric(valid_results, "kelly_criterion"), LAMBDA kelly_fractions :
    Let1(Metric(valid_results, "edge"), LAMBDA edges :
        [total_props_analyzed |-> Len(results),
         valid_analyses |-> Len(valid_results),
         error_count |-> Len(results) - Len(valid_results),
         recommendations |->
             [rec \in Categories \cup {"ERROR"} |-> Count(recommendations, rec)],
         confidence_stats |->
             [mean |-> Round(Mean(confidence_scores), 3),
              median |-> Round(Median(confidence_scores), 3),
              std |-> StdRound3(confidence_scores),
              min |-> Round(Least(confidence_scores), 3),
              max |-> Round(Greatest(confidence_scores), 3)],
         expected_value_stats |->
             [mean |-> Round(Mean(expected_values), 4),
              median |-> Round(Median(expected_values), 4),
              positive_ev_count |-> PositiveCount(expected_values),
              total_expected_return |-> Round(Sum(expected_values), 4)],
         kelly_stats |->
             [mean |-> Round(Mean(kelly_fractions), 4),
              median |-> Round(Median(kelly_fractions), 4),
              max_recommended_bet |-> Round(Greatest(kelly_fractions), 4),
              total_bankroll_allocation |-> Round(Sum(kelly_fractions), 4)],
         edge_stats |->
             [mean |-> Round(Mean(edges), 4),
              positive_edge_count |-> PositiveCount(edges),
              best_edge |-> Round(Greatest(edges), 4),
              worst_edge |-> Round(Least(edges), 4)],
         sports_breakdown |-> get_sports_breakdown(valid_results),
         wagerbrain_status |-> "fallback",
         generated_at |-> now])))))

\* mutation of get_analysis_summary: the test for an empty list left out
get_analysis_summary_unguarded(results, now) ==
    Let1(SelectSeq(results, IsValid), LAMBDA valid_results :
         IF valid_results = <<>>
         THEN [error |-> "No valid results to summarize"]
         ELSE SummaryOf(results, valid_results, now))

\* get_analysis_summary(results) at time now
get_analysis_summary(results, now) ==
    IF results = <<>> THEN [error |-> "No results to summarize"]
    ELSE Let1(SelectSeq(results, IsValid), LAMBDA valid_results :
              IF valid_results = <<>>
              THEN [error |-> "No valid results to summarize"]
              ELSE SummaryOf(results, valid_results, now))

----------------------------------------------------------------------------
(* get_top_recommendations                                                 *)

BetCategories == {"STRONG_BET", "MODERATE_BET", "WEAK_BET"}

\* mutation of SortsBefore: ascending expected value for the bet categories
SortsBeforeAscending(recommendation_type, x, y) ==
    IF recommendation_type \in BetCategories
    THEN RLt(GetOrZero(x.wagerbrain_analysis, "expected_value"),
             GetOrZero(y.wagerbrain_analysis, "expected_value"))
    ELSE RLt(x.confidence_score, y.confidence_score)

\* x sorts strictly before y: by expected value with reverse=True for the
\* bet categories, by confidence_score otherwise
SortsBefore(recommendation_type, x, y) ==
    IF recommendation_type \in BetCategories
    THEN RLt(GetOrZero(y.wagerbrain_analysis, "expected_value"),
             GetOrZero(x.wagerbrain_analysis, "expected_value"))
    ELSE RLt(x.confidence_score, y.confidence_score)

\* list.sort is stable: x goes behind every item it does not sort before
RECURSIVE InsertStable(_, _, _)
InsertStable(recommendation_type, x, sorted) ==
    IF sorted = <<>> THEN <<x>>
    ELSE IF SortsBefore(recommendation_type, x, Head(sorted)) THEN <<x>> \o sorted
    ELSE <<Head(sorted)>> \o InsertStable(recommendation_type, x, Tail(sorted))

RECURSIVE SortStable(_, _, _)
SortStable(recommendation_type, sorted, rest) ==
    IF rest = <<>> THEN sorted
    ELSE SortStable(recommendation_type,
                    InsertStable(recommendation_type, Head(rest), sorted), Tail(rest))

\* the results get_top_recommendations keeps (lines 934-935)
Filtered(results, recommendation_type) ==
    SelectSeq(results, LAMBDA r : r.recommendation = recommendation_type /\ IsValid(r))

\* mutation of ResultsAfterRanking: the sort applied to the argument itself
ResultsSortedInPlace(results, recommendation_type) ==
    SortStable(recommendation_type, <<>>, results)

\* the argument list after the call: the comprehension of lines 934-935
\* builds a new list, the sorts of lines 939-947 act on that one, and no item
\* is assigned to
ResultsAfterRanking(results, recommendation_type) == results

\* get_top_recommendations(results, recommendation_type, limit), limit >= 0
get_top_recommendations(results, recommendation_type, limit) ==
    Let1(SortStable(recommendation_type, <<>>,
                    Filtered(results, recommendation_type)), LAMBDA filtered_results :
         SubSeq(filtered_results, 1,
                IF limit < Len(filtered_results) THEN limit ELSE Len(filtered_results)))

----------------------------------------------------------------------------
(* validate_analysis_quality                                               *)

\* edge * expected_value >= 0 (lines 975-978)
SignCheck(edge, expected_value) ==
    IF RLe(Z(0), RMul(edge, expected_value)) THEN 1 ELSE 0

\* mutation of KellyCheck: only a non-positive expected value is checked
KellyCheckWhenNonPositive(expected_value, kelly_fraction) ==
    IF RLt(Z(0), expected_value) \/ RLe(kelly_fraction, Q(1, 100)) THEN 1 ELSE 0

\* the check of the Kelly fraction against the expected value (lines 981-986)
KellyCheck(expected_value, kelly_fraction) ==
    IF RLt(Z(0), expected_value) /\ RLt(Z(0), kelly_fraction) THEN 1
    ELSE IF RLe(expected_value, Z(0)) /\ RLe(kelly_fraction, Q(1, 100)) THEN 1
    ELSE 0

\* consistency_checks: two entries per valid result, in list order
ConsistencyChecks(valid_results) ==
    [i \in 1..(2 * Len(valid_results)) |->
        Let1(valid_results[(i + 1) \div 2].wagerbrain_analysis, LAMBDA wb_analysis :
             IF i % 2 = 1
             THEN SignCheck(GetOrZero(wb_analysis, "edge"),
                            GetOrZero(wb_analysis, "expected_value"))
             ELSE KellyCheck(GetOrZero(wb_analysis, "expected_value"),
                             GetOrZero(wb_analysis, "kelly_criterion")))]

StatusOf(quality_score) ==
    IF RLt(Q(9, 10), quality_score) THEN "excellent"
    ELSE IF RLt(Q(8, 10), quality_score) THEN "good"
    ELSE IF RLt(Q(6, 10), quality_score) THEN "acceptable"
    ELSE "poor"

\* the quality_metrics dict of a list with valid results (lines 962-1013)
QualityMetrics(results, valid_results) ==
    Let1(Q(Len(valid_results), Len(results)), LAMBDA completion_rate :
    Let1(Q(Len(results) - Len(valid_results), Len(results)), LAMBDA error_rate :
    Let1({valid_results[i].recommendation : i \in 1..Len(valid_results)},
         LAMBDA unique_recommendations :
    Let1(Q(Cardinality(unique_recommendations), 5), LAMBDA diversity_score :
    Let1(Mean([i \in 1..(2 * Len(valid_results)) |->
                   Z(ConsistencyChecks(valid_results)[i])]),
         LAMBDA mathematical_consistency :
    Let1(RAdd(RAdd(RMul(completion_rate, Q(3, 10)),
                   RMul(RSub(Z(1), error_rate), Q(3, 10))),
              RAdd(RMul(diversity_score, Q(2, 10)),
                   RMul(mathematical_consistency, Q(2, 10)))),
         LAMBDA quality_score :
        [completion_rate |-> Round(completion_rate, 3),
         error_rate |-> Round(error_rate, 3),
         recommendation_diversity |-> Round(diversity_score, 3),
         mathematical_consistency |-> Round(mathematical_consistency, 3),
         overall_quality_score |-> Round(quality_score, 3),
         status |-> StatusOf(quality_score),
         total_results |-> Len(results),
         valid_results |-> Len(valid_results),
         unique_recommendations |-> Cardinality(unique_recommendations),
         wagerbrain_available |-> FALSE]))))))

\* validate_analysis_quality(results)
validate_analysis_quality(results) ==
    IF results = <<>>
    THEN [status |-> "error", message |-> "No results to validate"]
    ELSE Let1(SelectSeq(results, IsValid), LAMBDA valid_results :
              IF valid_results = <<>>
              THEN [status |-> "error", message |-> "No valid results to validate"]
              ELSE QualityMetrics(results, valid_results))

----------------------------------------------------------------------------
(* The caller of the summaries: it holds a list of results of analyze_prop *)
(* and applies one of the summarising methods to it.                       *)

MaxResults == 4

DefaultConfig ==
    AnalysisConfig(Q(75, 100), Q(65, 100), Q(55, 100), Q(25, 100), Simulations)

HitsAndRuns ==
    Stats([t \in {"hits", "runs"} |-> IF t = "hits" THEN Q(18, 10) ELSE Q(12, 10)])

\* calls of analyze_prop whose results differ in sport, recommendation,
\* confidence and metrics, one of them failing
ResultCalls ==
    {<<SampleProp(OddsStr("-", 110)), HitsAndRuns, Opponent({"era"}, Q(5, 1))>>,
     <<SampleProp(OddsStr("-", 150)), HitsAndRuns, Opponent({"era"}, Q(5, 1))>>,
     <<SampleProp(OddsInt("-", 150)), HitsAndRuns, Opponent({"era"}, Q(5, 1))>>,
     <<SampleProp(OddsStr("+", 110)), HitsAndRuns,
       Opponent({"era", "whip"}, Q(42, 10))>>,
     <<Prop(AllKeys \ {"odds"}, "prop_002", "Luka Doncic", "points",
            Q(255, 10), "NBA", OddsNone), NoStats, NoOpponent>>,
     <<SampleProp(OddsInt("-", 150)), Stats(NoAverages), Opponent({"era"}, Q(5, 1))>>,
     <<SampleProp(OddsStr("-", 110)), Stats(NoAverages),
       Opponent({"era", "whip"}, Q(42, 10))>>,
     <<SampleProp(OddsStr("", 110)), NoStats, NoOpponent>>,
     <<Prop(AllKeys \ {"player_name"}, "prop_003", "None", "hits",
            Q(15, 10), "MLB", OddsStr("-", 110)), NoStats, NoOpponent>>}

ResultOf(c) ==
    analyze_prop(SeedState(Seed), DefaultConfig, c[1], c[2], c[3], 0).outcome.result

ResultInputs == {ResultOf(c) : c \in ResultCalls}

\* the calls whose results are summarized: two sports, four recommendations,
\* one failure
SummaryCalls ==
    {<<SampleProp(OddsStr("-", 110)), HitsAndRuns, Opponent({"era"}, Q(5, 1))>>,
     <<SampleProp(OddsStr("-", 150)), HitsAndRuns, Opponent({"era"}, Q(5, 1))>>,
     <<SampleProp(OddsStr("+", 110)), HitsAndRuns,
       Opponent({"era", "whip"}, Q(42, 10))>>,
     <<Prop(AllKeys \ {"odds"}, "prop_002", "Luka Doncic", "points",
            Q(255, 10), "NBA", OddsNone), NoStats, NoOpponent>>,
     <<SampleProp(OddsInt("-", 150)), Stats(NoAverages), Opponent({"era"}, Q(5, 1))>>,
     <<Prop(AllKeys \ {"player_name"}, "prop_003", "None", "hits",
            Q(15, 10), "MLB", OddsStr("-", 110)), NoStats, NoOpponent>>}

SummaryInputs == {ResultOf(c) : c \in SummaryCalls}

InitSummary ==
    /\ cfg = DefaultConfig
    /\ rng = SeedState(Seed)
    /\ clock \in 0..MaxClock
    /\ call = NoCall
    /\ prev = NoCall
    /\ io \in {[op |-> "results", results |-> results] :
                   results \in Lists(SummaryInputs, MaxResults)}
    /\ batch = NoBatch
    /\ thr = <<>>

GetAnalysisSummary ==
    Apply("get_analysis_summary", get_analysis_summary(io.results, clock))

NextSummary == GetAnalysisSummary

SpecSummary == InitSummary /\ [][NextSummary]_vars

----------------------------------------------------------------------------
(* Claims about the summaries, checked under SpecSummary.                  *)

ErrorTagged(results) == SelectSeq(results, LAMBDA r : ~IsValid(r))

\* C17: for every non-empty list of results, whatever its mix of valid and
\* error-tagged results, get_analysis_summary returns a summary whose
\* error_count is the number of error-tagged results, whose valid_analyses and
\* error_count add up to total_props_analyzed, and whose per-category
\* recommendation counts add up to valid_analyses
C17_SummaryPartitionsResults ==
    (call.op = "get_analysis_summary" /\ io.results # <<>>) =>
        /\ {"error_count", "valid_analyses", "total_props_analyzed",
            "recommendations"} \subseteq DOMAIN call.result
        /\ call.result.error_count = Len(ErrorTagged(io.results))
        /\ call.result.valid_analyses + call.result.error_count
               = call.result.total_props_analyzed
        /\ call.result.total_props_analyzed = Len(io.results)
        /\ Sum([i \in 1..5 |->
                   Z(call.result.recommendations[
                         <<"STRONG_BET", "MODERATE_BET", "WEAK_BET", "AVOID",
                           "STRONG_AVOID">>[i]])])
               = Z(call.result.valid_analyses)

\* the list results in the order p, and a summary without its timestamp
Permuted(results, p) == [i \in 1..Len(results) |-> results[p[i]]]

ButGeneratedAt(summary) ==
    [key \in DOMAIN summary \ {"generated_at"} |-> summary[key]]

\* C18: get_analysis_summary returns the same counts, statistics and
\* per-sport breakdown for every permutation of the same results, whenever
\* it is generated
C18_SummaryIsCommutative ==
    call.op = "get_analysis_summary" =>
        \A p \in Permutations(1..Len(io.results)), now \in 0..MaxClock :
            ButGeneratedAt(get_analysis_summary(Permuted(io.results, p), now))
                = ButGeneratedAt(call.result)

----------------------------------------------------------------------------
(* The caller of the reports: it holds a list of results of analyze_prop   *)
(* and asks for the top recommendations of a category or for the quality   *)
(* report.                                                                 *)

MaxRanked == 3

MaxLimit == 2

InitReports ==
    /\ cfg = DefaultConfig
    /\ rng = SeedState(Seed)
    /\ clock = 0
    /\ call = NoCall
    /\ prev = NoCall
    /\ io \in {[op |-> "results", results |-> results] :
                   results \in Lists(ResultInputs, MaxRanked)}
    /\ batch = NoBatch
    /\ thr = <<>>

GetTopRecommendations ==
    \E recommendation_type \in Categories, limit \in 0..MaxLimit :
        /\ call = NoCall
        /\ call' = [op |-> "get_top_recommendations",
                    recommendation_type |-> recommendation_type,
                    limit |-> limit,
                    result |-> get_top_recommendations(io.results,
                                                       recommendation_type, limit)]
        /\ io' = [io EXCEPT !.results = ResultsAfterRanking(@, recommendation_type)]
        /\ UNCHANGED <<cfg, rng, clock, prev, batch, thr>>

ValidateAnalysisQuality ==
    Apply("validate_analysis_quality", validate_analysis_quality(io.results))

NextReports == GetTopRecommendations \/ ValidateAnalysisQuality

SpecReports == InitReports /\ [][NextReports]_vars

----------------------------------------------------------------------------
(* Claims about the reports, checked under SpecReports.                    *)

ExpectedValueOf(r) == GetOrZero(r.wagerbrain_analysis, "expected_value")

\* the list ranked is in the order the category asks for
InCategoryOrder(recommendation_type, ranked) ==
    \A i, j \in 1..Len(ranked) :
        i < j => IF recommendation_type \in BetCategories
                 THEN RLe(ExpectedValueOf(ranked[j]), ExpectedValueOf(ranked[i]))
                 ELSE RLe(ranked[i].confidence_score, ranked[j].confidence_score)

\* C19: get_top_recommendations returns only non-error results of the
\* requested category, at most limit of them, and they are the first limit
\* items of an ordering of all such results by expected value descending for
\* STRONG_BET, MODERATE_BET and WEAK_BET, by confidence score ascending for
\* AVOID and STRONG_AVOID
C19_TopOfTheCategoryOrder ==
    call.op = "get_top_recommendations" =>
        Let1(Filtered(io.results, call.recommendation_type), LAMBDA wanted :
            /\ \A i \in 1..Len(call.result) :
                   /\ IsValid(call.result[i])
                   /\ call.result[i].recommendation = call.recommendation_type
            /\ Len(call.result) <= call.limit
            /\ \E p \in Permutations(1..Len(wanted)) :
                   /\ InCategoryOrder(call.recommendation_type, Permuted(wanted, p))
                   /\ call.result
                          = SubSeq(Permuted(wanted, p), 1,
                                   IF call.limit < Len(wanted) THEN call.limit
                                   ELSE Len(wanted)))

\* three MODERATE_BET results, the last with a higher expected value than
\* the first, and the top two asked for: the last one comes first
C19_TopTwoOfThreeReordered ==
    /\ call.op = "get_top_recommendations"
    /\ call.recommendation_type = "MODERATE_BET"
    /\ call.limit = 2
    /\ Len(Filtered(io.results, "MODERATE_BET")) = 3
    /\ Len(call.result) = 2
    /\ RLt(ExpectedValueOf(io.results[1]), ExpectedValueOf(io.results[3]))
    /\ call.result[1] = io.results[3]

KellyOf(r) == GetOrZero(r.wagerbrain_analysis, "kelly_criterion")

EdgeOf(r) == GetOrZero(r.wagerbrain_analysis, "edge")

\* the checks r passes when the Kelly check only asks for a Kelly fraction of
\* at most 0.01 under a non-positive expected value
PassesAsStated(r) ==
    (IF RLe(Z(0), RMul(EdgeOf(r), ExpectedValueOf(r))) THEN 1 ELSE 0)
    + (IF RLe(ExpectedValueOf(r), Z(0)) => RLe(KellyOf(r), Q(1, 100)) THEN 1 ELSE 0)

\* the checks r passes when the Kelly check also asks for a positive Kelly
\* fraction under a positive expected value
PassesWithPositiveKelly(r) ==
    (IF RLe(Z(0), RMul(EdgeOf(r), ExpectedValueOf(r))) THEN 1 ELSE 0)
    + (IF \/ RLt(Z(0), ExpectedValueOf(r)) /\ RLt(Z(0), KellyOf(r))
          \/ RLe(ExpectedValueOf(r), Z(0)) /\ RLe(KellyOf(r), Q(1, 100))
       THEN 1 ELSE 0)

\* 0.3*completion_rate + 0.3*(1 - error_rate) + 0.2*(categories / 5)
\* + 0.2*(passed checks / checks), for a list with valid results
QualityOf(results, Passes(_)) ==
    Let1(SelectSeq(results, IsValid), LAMBDA valid :
        RAdd(RAdd(RMul(Q(3, 10), Q(Len(valid), Len(results))),
                  RMul(Q(3, 10), RSub(Z(1), Q(Len(ErrorTagged(results)), Len(results))))),
             RAdd(RMul(Q(2, 10),
                       Q(Cardinality({valid[i].recommendation : i \in 1..Len(valid)}), 5)),
                  RMul(Q(2, 10),
                       RDiv(Sum([i \in 1..Len(valid) |-> Z(Passes(valid[i]))]),
                            Z(2 * Len(valid)))))))

\* the report gives the score (to three places), which lies in [0,1], and the
\* status of its thresholds
ReportsQuality(report, score) ==
    /\ RLe(Z(0), score) /\ RLe(score, Z(1))
    /\ report.overall_quality_score = Round(score, 3)
    /\ report.status = IF RLt(Q(9, 10), score) THEN "excellent"
                       ELSE IF RLt(Q(8, 10), score) THEN "good"
                       ELSE IF RLt(Q(6, 10), score) THEN "acceptable"
                       ELSE "poor"

\* C20 as stated: for a list with a valid result, the quality score is the
\* weighted blend in which a result passes the Kelly check unless its expected
\* value is non-positive and its Kelly fraction above 0.01; the score is in
\* [0,1] and the status follows the thresholds 0.9, 0.8, 0.6
C20_QualityAsStated ==
    (call.op = "validate_analysis_quality" /\ SelectSeq(io.results, IsValid) # <<>>) =>
        ReportsQuality(call.result, QualityOf(io.results, PassesAsStated))

\* C20 amended: for a list with a valid result, the quality score is the
\* weighted blend in which a result passes the Kelly check when its expected
\* value and Kelly fraction are both positive, or its expected value is
\* non-positive and its Kelly fraction at most 0.01; the score is in [0,1]
\* and the status follows the thresholds 0.9, 0.8, 0.6
C20_QualityWithPositiveKelly ==
    (call.op = "validate_analysis_quality" /\ SelectSeq(io.results, IsValid) # <<>>) =>
        ReportsQuality(call.result, QualityOf(io.results, PassesWithPositiveKelly))

\* a report on a list that holds an error-tagged result and a valid result
\* of positive expected value whose Kelly fraction is 0
C20_ZeroKellyOnPositiveValue ==
    /\ call.op = "validate_analysis_quality"
    /\ \E i \in 1..Len(io.results) : ~IsValid(io.results[i])
    /\ \E i \in 1..Len(io.results) :
           /\ IsValid(io.results[i])
           /\ RLt(Z(0), ExpectedValueOf(io.results[i]))
           /\ KellyOf(io.results[i]) = Z(0)
    /\ call.result.status \in {"excellent", "good", "acceptable", "poor"}

----------------------------------------------------------------------------
(* The module's own run (lines 1095-1105): a batch is analyzed, its        *)
(* results are summarized, then validated, and a caller ranks them.        *)

SummarizeBatch ==
    /\ batch.pc = "returned"
    /\ batch' = [pc |-> "summarized", props_list |-> batch.props_list,
                 player_stats_dict |-> batch.player_stats_dict,
                 opponent_data_dict |-> batch.opponent_data_dict,
                 results |-> batch.results,
                 summary |-> get_analysis_summary(batch.results, clock)]
    /\ UNCHANGED <<cfg, rng, clock, call, prev, io, thr>>

ValidateBatch ==
    /\ batch.pc = "summarized"
    /\ batch' = [pc |-> "validated", props_list |-> batch.props_list,
                 player_stats_dict |-> batch.player_stats_dict,
                 opponent_data_dict |-> batch.opponent_data_dict,
                 results |-> batch.results,
                 summary |-> batch.summary,
                 quality |-> validate_analysis_quality(batch.results)]
    /\ UNCHANGED <<cfg, rng, clock, call, prev, io, thr>>

\* the caller then asks for the top recommendations of a category
RankBatch ==
    /\ batch.pc = "validated"
    /\ \E recommendation_type \in Categories, limit \in 0..MaxLimit :
           batch' = [pc |-> "ranked", props_list |-> batch.props_list,
                     player_stats_dict |-> batch.player_stats_dict,
                     opponent_data_dict |-> batch.opponent_data_dict,
                     results |-> ResultsAfterRanking(batch.results, recommendation_type),
                     summary |-> batch.summary,
                     quality |-> batch.quality,
                     recommendation_type |-> recommendation_type,
                     top |-> get_top_recommendations(batch.results,
                                                     recommendation_type, limit)]
    /\ UNCHANGED <<cfg, rng, clock, call, prev, io, thr>>

NextPipeline ==
    \/ BatchCall
    \/ BatchIteration
    \/ BatchReturn
    \/ SummarizeBatch
    \/ ValidateBatch
    \/ RankBatch

SpecPipeline == InitBatch /\ [][NextPipeline]_vars

----------------------------------------------------------------------------
(* Claims about the run of a batch, checked under SpecPipeline.            *)

\* C21: batch_analyze_props of an empty list returns an empty list without
\* raising, and get_analysis_summary and validate_analysis_quality of the
\* empty list each return their no-results indicator, not a summary or a
\* report with statistics
C21_EmptyBatchIsReportedAsEmpty ==
    (batch.pc # "idle" /\ batch.props_list = <<>>) =>
        /\ batch.pc # "raised"
        /\ batch.results = <<>>
        /\ batch.pc \in {"summarized", "validated"} =>
               batch.summary = [error |-> "No results to summarize"]
        /\ batch.pc = "validated" =>
               batch.quality = [status |-> "error",
                                message |-> "No results to validate"]

\* the empty batch, with no stats and no opponent dict, run to its end
C21_EmptyBatchValidated ==
    /\ batch.pc = "validated"
    /\ batch.props_list = <<>>
    /\ batch.player_stats_dict = NoEntries
    /\ batch.opponent_data_dict.kind = "none"

----------------------------------------------------------------------------
(* PropParser.detect_sport of prop_parser.py.  A text is the sequence of   *)
(* its characters.                                                         *)

UpperCase ==
    <<"A", "B", "C", "D", "E", "F", "G", "H", "I", "J", "K", "L", "M", "N", "O", "P", "Q", "R", "S", "T", "U", "V", "W", "X", "Y", "Z">>

LowerCase ==
    <<"a", "b", "c", "d", "e", "f", "g", "h", "i", "j", "k", "l", "m", "n", "o", "p", "q", "r", "s", "t", "u", "v", "w", "x", "y", "z">>

\* c.lower() of one character
LowerChar(c) ==
    IF \E i \in DOMAIN UpperCase : UpperCase[i] = c
    THEN LowerCase[CHOOSE i \in DOMAIN UpperCase : UpperCase[i] = c]
    ELSE c

\* text.lower()
Lower(text) == [i \in 1..Len(text) |-> LowerChar(text[i])]

\* keyword in text
Contains(keyword, text) ==
    \E i \in 1..(Len(text) - Len(keyword) + 1) :
        SubSeq(text, i, i + Len(keyword) - 1) = keyword

\* any(word in text for word in words)
AnyWord(words, text) == \E k \in DOMAIN words : Contains(words[k], text)

\* self.sport_keywords, in the order of the dict
sport_keywords ==
    <<
      [sport |-> "MLB", keywords |->
          <<<<"b", "a", "s", "e", "b", "a", "l", "l">>,
            <<"m", "l", "b">>,
            <<"r", "u", "n", "s">>,
            <<"h", "i", "t", "s">>,
            <<"s", "t", "r", "i", "k", "e", "o", "u", "t", "s">>,
            <<"h", "o", "m", "e", " ", "r", "u", "n", "s">>,
            <<"r", "b", "i", "s">>,
            <<"s", "t", "o", "l", "e", "n", " ", "b", "a", "s", "e", "s">>,
            <<"i", "n", "n", "i", "n", "g", "s">>,
            <<"i", "n", "n", "i", "n", "g">>,
            <<"e", "r", "a">>,
            <<"w", "h", "i", "p">>,
            <<"a", "l", "l", "o", "w", "e", "d">>,
            <<"w", "a", "l", "k", "s">>,
            <<"s", "a", "v", "e", "s">>,
            <<"h", "o", "l", "d", "s">>>>],
      [sport |-> "NFL", keywords |->
          <<<<"f", "o", "o", "t", "b", "a", "l", "l">>,
            <<"n", "f", "l">>,
            <<"y", "a", "r", "d", "s">>,
            <<"t", "o", "u", "c", "h", "d", "o", "w", "n", "s">>,
            <<"p", "a", "s", "s", "i", "n", "g">>,
            <<"r", "u", "s", "h", "i", "n", "g">>,
            <<"r", "e", "c", "e", "i", "v", "i", "n", "g">>,
            <<"r", "e", "c", "e", "p", "t", "i", "o", "n", "s">>,
            <<"c", "o", "m", "p", "l", "e", "t", "i", "o", "n", "s">>,
            <<"a", "t", "t", "e", "m", "p", "t", "s">>,
            <<"i", "n", "t", "e", "r", "c", "e", "p", "t", "i", "o", "n", "s">>,
            <<"f", "u", "m", "b", "l", "e", "s">>,
            <<"s", "a", "c", "k", "s">>>>],
      [sport |-> "NBA", keywords |->
          <<<<"b", "a", "s", "k", "e", "t", "b", "a", "l", "l">>,
            <<"n", "b", "a">>,
            <<"p", "o", "i", "n", "t", "s">>,
            <<"r", "e", "b", "o", "u", "n", "d", "s">>,
            <<"a", "s", "s", "i", "s", "t", "s">>,
            <<"s", "t", "e", "a", "l", "s">>,
            <<"b", "l", "o", "c", "k", "s">>,
            <<"t", "h", "r", "e", "e", " ", "p", "o", "i", "n", "t", "e", "r", "s">>,
            <<"f", "i", "e", "l", "d", " ", "g", "o", "a", "l", "s">>,
            <<"f", "r", "e", "e", " ", "t", "h", "r", "o", "w", "s">>,
            <<"t", "u", "r", "n", "o", "v", "e", "r", "s">>,
            <<"m", "i", "n", "u", "t", "e", "s">>>>],
      [sport |-> "NHL", keywords |->
          <<<<"h", "o", "c", "k", "e", "y">>,
            <<"n", "h", "l">>,
            <<"g", "o", "a", "l", "s">>,
            <<"a", "s", "s", "i", "s", "t", "s">>,
            <<"s", "a", "v", "e", "s">>,
            <<"s", "h", "o", "t", "s">>,
            <<"p", "e", "n", "a", "l", "t", "y", " ", "m", "i", "n", "u", "t", "e", "s">>,
            <<"h", "i", "t", "s">>,
            <<"f", "a", "c", "e", "o", "f", "f">>,
            <<"p", "l", "u", "s", " ", "m", "i", "n", "u", "s">>,
            <<"t", "i", "m", "e", " ", "o", "n", " ", "i", "c", "e">>>>],
      [sport |-> "MMA", keywords |->
          <<<<"m", "m", "a">>,
            <<"u", "f", "c">>,
            <<"s", "t", "r", "i", "k", "e", "s">>,
            <<"t", "a", "k", "e", "d", "o", "w", "n", "s">>,
            <<"s", "u", "b", "m", "i", "s", "s", "i", "o", "n">>,
            <<"k", "n", "o", "c", "k", "d", "o", "w", "n", "s">>,
            <<"s", "i", "g", "n", "i", "f", "i", "c", "a", "n", "t", " ", "s", "t", "r", "i", "k", "e", "s">>>>],
      [sport |-> "BOXING", keywords |->
          <<<<"b", "o", "x", "i", "n", "g">>,
            <<"p", "u", "n", "c", "h", "e", "s">>,
            <<"k", "n", "o", "c", "k", "d", "o", "w", "n", "s">>,
            <<"r", "o", "u", "n", "d", "s">>,
            <<"j", "a", "b", "s">>,
            <<"p", "o", "w", "e", "r", " ", "p", "u", "n", "c", "h", "e", "s">>>>],
      [sport |-> "GOLF", keywords |->
          <<<<"g", "o", "l", "f">>,
            <<"b", "i", "r", "d", "i", "e", "s">>,
            <<"e", "a", "g", "l", "e", "s">>,
            <<"p", "a", "r", "s">>,
            <<"b", "o", "g", "e", "y", "s">>,
            <<"d", "r", "i", "v", "i", "n", "g", " ", "d", "i", "s", "t", "a", "n", "c", "e">>,
            <<"f", "a", "i", "r", "w", "a", "y", "s">>,
            <<"g", "r", "e", "e", "n", "s", " ", "i", "n", " ", "r", "e", "g", "u", "l", "a", "t", "i", "o", "n">>,
            <<"p", "u", "t", "t", "s">>>>],
      [sport |-> "COD", keywords |->
          <<<<"c", "o", "d">>,
            <<"c", "a", "l", "l", " ", "o", "f", " ", "d", "u", "t", "y">>,
            <<"m", "a", "p">>,
            <<"k", "i", "l", "l", "s">>,
            <<"d", "e", "a", "t", "h", "s">>,
            <<"a", "s", "s", "i", "s", "t", "s">>,
            <<"k", "d", " ", "r", "a", "t", "i", "o">>>>],
      [sport |-> "CS2", keywords |->
          <<<<"c", "s", "2">>,
            <<"c", "o", "u", "n", "t", "e", "r", "-", "s", "t", "r", "i", "k", "e">>,
            <<"m", "a", "p", "s">>,
            <<"k", "i", "l", "l", "s">>,
            <<"d", "e", "a", "t", "h", "s">>,
            <<"a", "s", "s", "i", "s", "t", "s">>,
            <<"a", "d", "r">>>>],
      [sport |-> "LOL", keywords |->
          <<<<"l", "o", "l">>,
            <<"l", "e", "a", "g", "u", "e", " ", "o", "f", " ", "l", "e", "g", "e", "n", "d", "s">>,
            <<"a", "s", "s", "i", "s", "t", "s">>,
            <<"k", "i", "l", "l", "s">>,
            <<"d", "e", "a", "t", "h", "s">>,
            <<"c", "s">>,
            <<"g", "o", "l", "d">>>>],
      [sport |-> "VAL", keywords |->
          <<<<"v", "a", "l">>,
            <<"v", "a", "l", "o", "r", "a", "n", "t">>,
            <<"k", "i", "l", "l", "s">>,
            <<"d", "e", "a", "t", "h", "s">>,
            <<"a", "s", "s", "i", "s", "t", "s">>,
            <<"r", "o", "u", "n", "d", "s">>>>],
      [sport |-> "R6", keywords |->
          <<<<"r", "6">>,
            <<"r", "a", "i", "n", "b", "o", "w", " ", "s", "i", "x">>,
            <<"k", "i", "l", "l", "s">>,
            <<"d", "e", "a", "t", "h", "s">>,
            <<"a", "s", "s", "i", "s", "t", "s">>>>],
      [sport |-> "DOTA2", keywords |->
          <<<<"d", "o", "t", "a", "2">>,
            <<"d", "o", "t", "a">>,
            <<"k", "i", "l", "l", "s">>,
            <<"d", "e", "a", "t", "h", "s">>,
            <<"a", "s", "s", "i", "s", "t", "s">>,
            <<"l", "a", "s", "t", " ", "h", "i", "t", "s">>>>],
      [sport |-> "RL", keywords |->
          <<<<"r", "l">>,
            <<"r", "o", "c", "k", "e", "t", " ", "l", "e", "a", "g", "u", "e">>,
            <<"g", "o", "a", "l", "s">>,
            <<"s", "a", "v", "e", "s">>,
            <<"d", "e", "m", "o", "s">>,
            <<"s", "h", "o", "t", "s">>>>]
    >>

\* the loop over sport_keywords.items(): the sports with a keyword in the text
MatchingSports(prop_lower) ==
    {i \in DOMAIN sport_keywords : AnyWord(sport_keywords[i].keywords, prop_lower)}

detect_sport(prop_type, player_name) ==
    Let1(Lower(prop_type), LAMBDA prop_lower :
    Let1(MatchingSports(prop_lower), LAMBDA matching :
        IF matching # {}
        THEN sport_keywords[CHOOSE i \in matching : \A j \in matching : i <= j].sport
        ELSE IF AnyWord(<<<<"i", "n", "n", "i", "n", "g">>,
                       <<"r", "u", "n", "s">>,
                       <<"h", "i", "t", "s">>,
                       <<"s", "t", "r", "i", "k", "e", "o", "u", "t", "s">>,
                       <<"e", "r", "a">>>>, prop_lower)
        THEN "MLB"
        ELSE IF AnyWord(<<<<"y", "a", "r", "d", "s">>,
                       <<"t", "o", "u", "c", "h", "d", "o", "w", "n", "s">>,
                       <<"r", "e", "c", "e", "p", "t", "i", "o", "n", "s">>,
                       <<"c", "o", "m", "p", "l", "e", "t", "i", "o", "n", "s">>>>, prop_lower)
        THEN "NFL"
        ELSE IF AnyWord(<<<<"p", "o", "i", "n", "t", "s">>,
                       <<"r", "e", "b", "o", "u", "n", "d", "s">>,
                       <<"a", "s", "s", "i", "s", "t", "s">>,
                       <<"f", "i", "e", "l", "d", " ", "g", "o", "a", "l", "s">>>>, prop_lower)
        THEN "NBA"
        ELSE IF AnyWord(<<<<"g", "o", "a", "l", "s">>,
                       <<"s", "a", "v", "e", "s">>,
                       <<"s", "h", "o", "t", "s">>,
                       <<"a", "s", "s", "i", "s", "t", "s">>>>, prop_lower)
                /\ ~Contains(<<"f", "i", "e", "l", "d", " ", "g", "o", "a", "l", "s">>, prop_lower)
        THEN "NHL"
        ELSE "MLB"))

\* statistic names: those of test_sport_detection, one with capitals,
\* names with a keyword of several sports, names with no keyword, and ""
StatisticNames ==
    {<<"h", "i", "t", "s">>,
     <<"p", "a", "s", "s", "i", "n", "g", " ", "y", "a", "r", "d", "s">>,
     <<"p", "o", "i", "n", "t", "s">>,
     <<"g", "o", "a", "l", "s">>,
     <<"t", "a", "k", "e", "d", "o", "w", "n", "s">>,
     <<"b", "i", "r", "d", "i", "e", "s">>,
     <<"u", "n", "k", "n", "o", "w", "n", " ", "s", "t", "a", "t">>,
     <<"H", "i", "t", "s">>,
     <<"a", "s", "s", "i", "s", "t", "s">>,
     <<"s", "a", "v", "e", "s">>,
     <<"k", "i", "l", "l", "s">>,
     <<"t", "o", "t", "a", "l", " ", "b", "a", "s", "e", "s">>,
     <<"r", "o", "u", "n", "d", "s">>,
     <<"f", "i", "e", "l", "d", " ", "g", "o", "a", "l", "s">>,
     <<"F", "a", "n", "t", "a", "s", "y", " ", "S", "c", "o", "r", "e">>,
     <<>>}

PlayerNames == {<<>>, <<"M", "i", "k", "e", " ", "T", "r", "o", "u", "t">>}

DetectSportArgs ==
    {[op |-> "detect_sport", prop_type |-> t, player_name |-> p] :
        t \in StatisticNames, p \in PlayerNames}

----------------------------------------------------------------------------
(* The caller of the scoring functions, of the statistical model, of       *)
(* analyze_prop and of the parser's detect_sport: it holds the arguments   *)
(* of one call and applies the function to them.                           *)

\* a sub-analysis dict with a score, and one without
Scored(score) == [score |-> score]

Unscored == [note |-> "no score"]

SubAnalyses == {Scored(Z(0)), Scored(Q(1, 2)), Scored(Z(1)), Unscored}

\* factor weights: the defaults, weights that add up to more than 1, and
\* weights that are negative
WeightInputs ==
    {DefaultWeights,
     [DefaultWeights EXCEPT !.recent_form = Q(15, 10)],
     [DefaultWeights EXCEPT !.opponent_strength = Z(-1), !.historical = Q(-1, 2)]}

\* recent averages as hundredths of the line, on both sides of each threshold
\* of analyze_recent_performance and on each threshold
BucketRatios ==
    {0, 50, 84, 85, 89, 90, 94, 95, 97, 98, 100, 101, 102, 104, 105, 109, 110,
     114, 115, 119, 120, 125, 200}

\* lines at which the binary64 quotient average / line of these averages is
\* on the same side of every threshold as the exact quotient, and no line
BucketLines == {Z(1), Z(2), Z(0)}

\* the sample prop at a line, with a player who has no stats, no recent
\* averages, an average of another statistic only, or an average of the
\* prop's statistic
RecentArgs ==
    {[op |-> "recent", prop_data |-> [SampleProp(OddsStr("+", 110)) EXCEPT !.line_value = l],
      player_stats |-> s] :
        l \in BucketLines,
        s \in {NoStats, Stats(NoAverages), Stats([t \in {"runs"} |-> Q(12, 10)])}}
    \cup
    {[op |-> "recent", prop_data |-> [SampleProp(OddsStr("+", 110)) EXCEPT !.line_value = l],
      player_stats |-> Stats([t \in {"hits"} |-> IF l = Z(0) THEN Q(r, 100)
                                                 ELSE RMul(Q(r, 100), l)])] :
        l \in BucketLines, r \in BucketRatios}

\* sport tags: those of the outdoor list, others, one in lower case, and a
\* prop without a sport
SportTags == {"MLB", "NFL", "GOLF", "NBA", "NHL", "MMA", "SOCCER", "mlb", "UNKNOWN"}

SituationalArgs ==
    {[op |-> "situational",
      prop_data |-> [SampleProp(OddsStr("+", 110)) EXCEPT !.sport = s],
      player_stats |-> p] : s \in SportTags, p \in {NoStats, Stats(NoAverages)}}
    \cup
    {[op |-> "situational",
      prop_data |-> Prop(AllKeys \ {"sport"}, "prop_001", "Mike Trout", "hits",
                         Q(15, 10), "None", OddsStr("+", 110)),
      player_stats |-> NoStats]}

\* recent averages as hundredths of the line: none, below half the line
\* (volatility 0.5), where the volatility is the relative distance, within
\* 5% of the line (volatility 0.05), and above 1.5 times the line
AverageRatios ==
    {0, 10, 40, 50, 60, 90, 95, 96, 98, 100, 102, 105, 106, 110, 120, 150, 200, 300}

\* the average of the sample prop's statistic at r hundredths of the line
\* (of 1 when there is no line)
StatsAt(r, line_value) ==
    Stats([t \in {"hits"} |-> IF line_value = Z(0) THEN Q(r, 100)
                              ELSE RMul(Q(r, 100), line_value)])

\* the sample prop at a line, a smaller and a larger recent average
StatisticalArgs ==
    {[op |-> "statistical",
      prop_data |-> [SampleProp(OddsStr("+", 110)) EXCEPT !.line_value = l],
      lower |-> StatsAt(p[1], l), higher |-> StatsAt(p[2], l)] :
        l \in BucketLines,
        p \in {q \in AverageRatios \X AverageRatios : q[1] < q[2]}}

\* props of three statistics and two sports, with and without a line, at
\* odds that pay more and less than even money
ScoredProps ==
    {Prop(AllKeys, "prop_001", "Mike Trout", t[1], l, t[2], o) :
        t \in {<<"hits", "MLB">>, <<"home_runs", "MLB">>, <<"points", "NBA">>},
        l \in {Z(1), Z(0)},
        o \in {OddsStr("+", 110), OddsStr("+", 250), OddsStr("-", 150)}}

\* recent averages of a prop's statistic, as hundredths of its line, from
\* none to three times the line
ScoredRatios == {0, 50, 84, 100, 120, 160, 300}

\* pitching of an earned run average below 3.5, between, and above 4.5
ScoredOpponents ==
    {NoOpponent, Opponent({"era"}, Z(3)), Opponent({"era", "whip"}, Q(42, 10)),
     Opponent({"era"}, Z(5))}

AnalyzeArgs ==
    {[op |-> "analyze", prop_data |-> p, player_stats |-> s, opponent_data |-> o] :
        p \in ScoredProps, s \in {Stats(NoAverages)}, o \in ScoredOpponents}
    \cup
    {[op |-> "analyze", prop_data |-> p,
      player_stats |-> Stats([t \in {p.prop_type} |->
                                 IF p.line_value = Z(0) THEN Q(r, 100)
                                 ELSE RMul(Q(r, 100), p.line_value)]),
      opponent_data |-> o] :
        p \in ScoredProps, r \in ScoredRatios, o \in ScoredOpponents}

ConfidenceScoreArgs ==
    {[op |-> "sub_analyses", factors |-> w, recent |-> r, historical |-> h,
      opponent |-> o, situational |-> s] :
        w \in WeightInputs, r \in SubAnalyses, h \in SubAnalyses,
        o \in SubAnalyses, s \in SubAnalyses}

InitScores ==
    /\ cfg = DefaultConfig
    /\ rng = SeedState(Seed)
    /\ clock = 0
    /\ call = NoCall
    /\ prev = NoCall
    /\ io \in ConfidenceScoreArgs \cup RecentArgs \cup SituationalArgs
                \cup StatisticalArgs \cup DetectSportArgs \cup AnalyzeArgs
    /\ batch = NoBatch
    /\ thr = <<>>

CalculateConfidenceScore ==
    /\ io.op = "sub_analyses"
    /\ Apply("calculate_confidence_score",
             calculate_confidence_score(io.factors, io.recent, io.historical,
                                        io.opponent, io.situational))

AnalyzeRecentPerformance ==
    /\ io.op = "recent"
    /\ Apply("analyze_recent_performance",
             analyze_recent_performance(io.player_stats, io.prop_data))

AnalyzeSituationalFactors ==
    /\ io.op = "situational"
    /\ Apply("analyze_situational_factors",
             analyze_situational_factors(io.prop_data, io.player_stats))

StatisticalOfBoth ==
    /\ io.op = "statistical"
    /\ Apply("statistical_of_both",
             [lower |-> wagerbrain_statistical_analysis(io.lower, io.prop_data),
              higher |-> wagerbrain_statistical_analysis(io.higher, io.prop_data)])

DetectSport ==
    /\ io.op = "detect_sport"
    /\ Apply("detect_sport", detect_sport(io.prop_type, io.player_name))

\* analyze_prop called with the arguments given
AnalyzeGiven ==
    /\ io.op = "analyze"
    /\ call = NoCall
    /\ AnalyzeCall(io.prop_data, io.player_stats, io.opponent_data)
    /\ UNCHANGED <<cfg, clock, prev, io, batch, thr>>

NextScores ==
    \/ CalculateConfidenceScore
    \/ AnalyzeGiven
    \/ DetectSport
    \/ StatisticalOfBoth
    \/ AnalyzeRecentPerformance
    \/ AnalyzeSituationalFactors

SpecScores == InitScores /\ [][NextScores]_vars

----------------------------------------------------------------------------
(* Claims about the scoring functions, the statistical model and the sport *)
(* detection, checked under SpecScores; C29 is checked under Spec.         *)

\* the sub-score of a sub-analysis, 0.5 when it has none
SubScore(analysis) == IF analysis = Unscored THEN Q(1, 2) ELSE analysis.score

\* C23: the confidence is recent*w[recent_form] + historical*w[historical]
\* + opponent*w[opponent_strength] + situational*(w[home_away] + w[weather]
\* + w[rest_days]), with 0.5 for a missing sub-score, brought into [0,1]:
\* 0 when the sum is below 0, 1 when it is above 1
C23_WeightedSumWithinUnit ==
    call.op = "calculate_confidence_score" =>
        Let1(RAdd(RAdd(RMul(SubScore(io.recent), io.factors.recent_form),
                       RMul(SubScore(io.historical), io.factors.historical)),
                  RAdd(RMul(SubScore(io.opponent), io.factors.opponent_strength),
                       RMul(SubScore(io.situational),
                            RAdd(io.factors.home_away,
                                 RAdd(io.factors.weather, io.factors.rest_days))))),
             LAMBDA weighted :
                 /\ RLe(Z(0), call.result) /\ RLe(call.result, Z(1))
                 /\ call.result = IF RLt(weighted, Z(0)) THEN Z(0)
                                  ELSE IF RLt(Z(1), weighted) THEN Z(1)
                                  ELSE weighted)

\* a call without a recent-form score whose weighted sum, 0.5*1.5 + 0.05
\* + 0.25 + 0.3, is above 1
C23_MissingScoreAndClamped ==
    /\ call.op = "calculate_confidence_score"
    /\ io.recent = Unscored
    /\ io.factors.recent_form = Q(15, 10)
    /\ io.historical = Scored(Z(1))
    /\ io.opponent = Scored(Z(1))
    /\ io.situational = Scored(Z(1))
    /\ call.result = Z(1)

\* the thresholds of the recent-form buckets and the score of each, in
\* hundredths, from the highest threshold down
BucketTable ==
    <<<<120, 80>>, <<115, 75>>, <<110, 70>>, <<105, 65>>, <<102, 58>>,
      <<98, 52>>, <<95, 45>>, <<90, 38>>, <<85, 30>>>>

\* the score of the first threshold that ratio meets, 0.25 when it meets none
BucketScore(ratio) ==
    Let1({i \in 1..Len(BucketTable) : RLe(Q(BucketTable[i][1], 100), ratio)},
         LAMBDA met :
             IF met = {} THEN Q(25, 100)
             ELSE Q(BucketTable[CHOOSE i \in met : \A j \in met : i <= j][2], 100))

\* C24: for a line above 0 and a recent average of the prop's statistic, the
\* recent-form score is the score of the first threshold, from 1.20 down to
\* 0.85, that average / line meets (a threshold is met when it is equalled),
\* and 0.25 below 0.85; the score is 0.5 when the player has no recent
\* averages or none of the prop's statistic
C24_RecentFormBuckets ==
    call.op = "analyze_recent_performance" =>
        IF DOMAIN io.player_stats.recent_averages = {}
           \/ io.prop_data.prop_type \notin DOMAIN io.player_stats.recent_averages
        THEN call.result.score = Q(1, 2)
        ELSE RLt(Z(0), io.prop_data.line_value) =>
                 call.result.score =
                     BucketScore(RDiv(io.player_stats.recent_averages[io.prop_data.prop_type],
                                      io.prop_data.line_value))

\* an average of exactly 1.02 times the line scores 0.58
C24_OnTheThreshold ==
    /\ call.op = "analyze_recent_performance"
    /\ io.prop_data.line_value = Z(2)
    /\ "hits" \in DOMAIN io.player_stats.recent_averages
    /\ io.player_stats.recent_averages["hits"] = Q(204, 100)
    /\ call.result.score = Q(58, 100)

\* the sport tags that analyze_situational_factors takes as outdoor sports
OutdoorTags == {"MLB", "NFL", "GOLF"}

\* the situational score of a prop with a sport tag, given the weight of the
\* weather component and the score for an outdoor tag
SituationalScore(sport, weather_weight, outdoor_score) ==
    /\ call.result.home_away = Q(1, 2)
    /\ call.result.rest = Q(1, 2)
    /\ call.result.form = Q(1, 2)
    /\ call.result.weather = (IF sport \in OutdoorTags THEN Q(55, 100) ELSE Q(1, 2))
    /\ call.result.score =
           RAdd(RMul(call.result.weather, weather_weight),
                RMul(Q(1, 2), RSub(Z(1), weather_weight)))
    /\ call.result.score = (IF sport \in OutdoorTags THEN outdoor_score ELSE Q(1, 2))
    /\ RLe(Q(2, 10), call.result.score) /\ RLe(call.result.score, Q(8, 10))

\* C25: the situational score combines home/away 0.5, rest 0.5, form 0.5 and
\* weather (0.55 for MLB, NFL and GOLF, else 0.5) with weights 0.3, 0.25,
\* 0.2 and 0.25, so it is 0.5125 for an outdoor tag and 0.5 for any other
\* tag, and lies in [0.2, 0.8]
C25_SituationalWeatherQuarter ==
    (call.op = "analyze_situational_factors" /\ HasKey(io.prop_data, "sport")) =>
        SituationalScore(io.prop_data.sport, Q(25, 100), Q(5125, 10000))

\* C25 as stated: weather weighted 0.2, so 0.51 for an outdoor tag
C25_SituationalWeatherFifth ==
    (call.op = "analyze_situational_factors" /\ HasKey(io.prop_data, "sport")) =>
        SituationalScore(io.prop_data.sport, Q(20, 100), Q(51, 100))

\* an MLB prop scored 0.5125
C25_OutdoorProp ==
    /\ call.op = "analyze_situational_factors"
    /\ HasKey(io.prop_data, "sport")
    /\ io.prop_data.sport = "MLB"
    /\ call.result.score = Q(5125, 10000)

\* the standard deviation of the statistical model: the average times
\* |average - line| / line (0.1 when the line is not positive) kept within
\* [0.05, 0.5]
StatedDeviation(average, line) ==
    RMul(average,
         RMax(Q(5, 100), RMin(Q(5, 10),
              IF RLt(Z(0), line) THEN RDiv(RAbs(RSub(average, line)), line)
              ELSE Q(1, 10))))

\* z = (line - average) / standardDeviation, 0 when that is not positive
StatedZ(average, line) ==
    IF RLt(Z(0), StatedDeviation(average, line))
    THEN RDiv(RSub(line, average), StatedDeviation(average, line))
    ELSE Z(0)

\* the six ranges of z and the probability of each
StatedProbabilityOver(z) ==
    IF RLt(Z(2), z) THEN Q(25, 1000)
    ELSE IF RLt(Z(1), z) /\ RLe(z, Z(2)) THEN Q(16, 100)
    ELSE IF RLt(Z(0), z) /\ RLe(z, Z(1)) THEN RSub(Q(1, 2), RMul(Q(34, 100), z))
    ELSE IF RLt(Z(-1), z) /\ RLe(z, Z(0)) THEN RAdd(Q(1, 2), RMul(Q(34, 100), RAbs(z)))
    ELSE IF RLt(Z(-2), z) /\ RLe(z, Z(-1)) THEN Q(84, 100)
    ELSE Q(975, 1000)

\* the recent average of the sample prop's statistic in a player's stats
AverageOf(player_stats) == player_stats.recent_averages["hits"]

\* one result of the statistical model against the stated ranges
AsStatedFor(result, player_stats) ==
    Let1(StatedZ(AverageOf(player_stats), io.prop_data.line_value), LAMBDA z :
        /\ result.z_score = Round(z, 3)
        /\ result.probability_over = Round(StatedProbabilityOver(z), 4)
        /\ RLe(Q(25, 1000), result.probability_over)
        /\ RLe(result.probability_over, Q(975, 1000))
        /\ result.probability_under = RSub(Z(1), result.probability_over))

\* C26: without a precise normal CDF, probability_over is (to the four
\* places it is reported with) 0.025 for z > 2, 0.16 for 1 < z <= 2,
\* 0.5 - 0.34*z for 0 < z <= 1, 0.5 + 0.34*|z| for -1 < z <= 0, 0.84 for
\* -2 < z <= -1 and 0.975 for z <= -2, with z = (line - average) /
\* standardDeviation and 0 when the deviation is not positive; of two
\* results the one with the larger z has no larger probability_over; it
\* is within [0.025, 0.975] and probability_under is 1 - probability_over
C26_ApproximateProbabilityOver ==
    call.op = "statistical_of_both" =>
        /\ AsStatedFor(call.result.lower, io.lower)
        /\ AsStatedFor(call.result.higher, io.higher)
        /\ Let1(StatedZ(AverageOf(io.lower), io.prop_data.line_value), LAMBDA z_lower :
           Let1(StatedZ(AverageOf(io.higher), io.prop_data.line_value), LAMBDA z_higher :
               /\ RLe(z_lower, z_higher) =>
                      RLe(call.result.higher.probability_over,
                          call.result.lower.probability_over)
               /\ RLe(z_higher, z_lower) =>
                      RLe(call.result.lower.probability_over,
                          call.result.higher.probability_over)))

\* an average 2% below the line against one 2% above it: z = 20/49 and
\* z = -20/51, on the two interpolated ranges
C26_BothSidesOfZero ==
    /\ call.op = "statistical_of_both"
    /\ io.prop_data.line_value = Z(1)
    /\ AverageOf(io.lower) = Q(98, 100)
    /\ AverageOf(io.higher) = Q(102, 100)
    /\ call.result.lower.probability_over = Q(3612, 10000)
    /\ call.result.higher.probability_over = Q(6333, 10000)
    /\ call.result.higher.probability_under = Q(3667, 10000)

\* C30: for a line above 0 and two positive recent averages a1 <= a2,
\* probability_over(a1, line) <= probability_over(a2, line)
C30_ProbabilityOverFollowsAverage ==
    (/\ call.op = "statistical_of_both"
     /\ RLt(Z(0), io.prop_data.line_value)
     /\ RLt(Z(0), AverageOf(io.lower))
     /\ RLe(AverageOf(io.lower), AverageOf(io.higher))) =>
        RLe(call.result.lower.probability_over, call.result.higher.probability_over)

\* the statistic names of test_sport_detection and the sport expected of each
TestedSports ==
    <<<<<<"h", "i", "t", "s">>, "MLB">>,
      <<<<"p", "a", "s", "s", "i", "n", "g", " ", "y", "a", "r", "d", "s">>, "NFL">>,
      <<<<"p", "o", "i", "n", "t", "s">>, "NBA">>,
      <<<<"g", "o", "a", "l", "s">>, "NHL">>,
      <<<<"t", "a", "k", "e", "d", "o", "w", "n", "s">>, "MMA">>,
      <<<<"b", "i", "r", "d", "i", "e", "s">>, "GOLF">>,
      <<<<"u", "n", "k", "n", "o", "w", "n", " ", "s", "t", "a", "t">>, "UNKNOWN">>>>

\* C27: detect_sport gives MLB for hits, NFL for passing yards, NBA for
\* points, NHL for goals, MMA for takedowns and GOLF for birdies, and
\* UNKNOWN for a statistic name that contains no sport keyword, such as
\* 'unknown stat'
C27_DetectSportAsTested ==
    call.op = "detect_sport" =>
        /\ \A k \in DOMAIN TestedSports :
               io.prop_type = TestedSports[k][1] => call.result = TestedSports[k][2]
        /\ MatchingSports(Lower(io.prop_type)) = {} => call.result = "UNKNOWN"

\* low <= x <= high
Within(x, low, high) == RLe(low, x) /\ RLe(x, high)

\* C28: with the default configuration, a result of analyze_prop that is
\* not error-tagged has a confidence score between 0.355 and 0.675, its
\* sub-scores being within [0.25, 0.80] (recent form), [0.35, 0.77]
\* (historical), [0.35, 0.65] (opponent) and [0.5, 0.5125] (situational),
\* and its recommendation is never STRONG_BET
C28_ConfidenceBelowStrong ==
    (/\ call.op = "analyze_prop"
     /\ cfg = DefaultConfig
     /\ ~call.outcome.raised
     /\ IsValid(call.outcome.result)) =>
        LET r == call.outcome.result
            c == r.analysis_components
        IN  /\ Within(c.recent_performance.score, Q(25, 100), Q(80, 100))
            /\ Within(c.historical_trends.score, Q(35, 100), Q(77, 100))
            /\ Within(c.opponent_matchup.score, Q(35, 100), Q(65, 100))
            /\ Within(c.situational_factors.score, Q(1, 2), Q(5125, 10000))
            /\ Within(r.confidence_score, Q(355, 1000), Q(675, 1000))
            /\ RLt(r.confidence_score, cfg.high)
            /\ r.recommendation # "STRONG_BET"

\* every sub-score at its upper end, a confidence of 0.675 and a bet whose
\* expected value, edge and Kelly fraction pass the first branch of the
\* recommendation: rated MODERATE_BET
C28_HighestConfidence ==
    /\ call.op = "analyze_prop"
    /\ cfg = DefaultConfig
    /\ ~call.outcome.raised
    /\ IsValid(call.outcome.result)
    /\ call.outcome.result.analysis_components.recent_performance.score = Q(80, 100)
    /\ call.outcome.result.analysis_components.historical_trends.score = Q(77, 100)
    /\ call.outcome.result.analysis_components.opponent_matchup.score = Q(65, 100)
    /\ call.outcome.result.analysis_components.situational_factors.score = Q(5125, 10000)
    /\ call.outcome.result.confidence_score = Q(675, 1000)
    /\ FirstBranch(call.outcome.result.wagerbrain_analysis.expected_value,
                   call.outcome.result.wagerbrain_analysis.edge,
                   call.outcome.result.wagerbrain_analysis.kelly_criterion)
    /\ call.outcome.result.recommendation = "MODERATE_BET"

\* C29: a result of analyze_prop that is not error-tagged passes both
\* consistency checks of validate_analysis_quality, edge * expected_value
\* >= 0 and Kelly > 0 when expected_value > 0 or Kelly <= 0.01 otherwise,
\* whatever the odds given, so that the mathematical_consistency of a list
\* of it is 1
C29_EngineResultsConsistent ==
    (/\ call.op = "analyze_prop"
     /\ ~call.outcome.raised
     /\ IsValid(call.outcome.result)) =>
        LET w == call.outcome.result.wagerbrain_analysis
        IN  /\ RLe(Z(0), RMul(GetOrZero(w, "edge"), GetOrZero(w, "expected_value")))
            /\ IF RLt(Z(0), GetOrZero(w, "expected_value"))
               THEN RLt(Z(0), GetOrZero(w, "kelly_criterion"))
               ELSE RLe(GetOrZero(w, "kelly_criterion"), Q(1, 100))
            /\ QualityMetrics(<<call.outcome.result>>,
                              <<call.outcome.result>>).mathematical_consistency = Z(1)
====
